---- MODULE Spec2Model ----
(***************************************************************************)
(* A model of the assignment / validation / export pipeline of the        *)
(* scanner extension: PageAssignment and AssignmentManager                 *)
(* (models/assignment.py), DocumentBatch (models/batch.py) and             *)
(* DocumentProcessor (processing/document_processor.py) with the batch     *)
(* verdict of ValidationEngine (utils/validation.py).                      *)
(***************************************************************************)
EXTENDS Integers, Sequences, FiniteSets, TLC

(***************************************************************************)
(* Bounds of the model.                                                    *)
(***************************************************************************)
\* number of assignment ids (uuid4 values) that can be drawn
MaxAssignments == 3
\* number of scanned files (uuid4 file ids) that can be drawn
MaxFiles == 2
\* highest page number of a page reference
MaxPageNumber == 1
\* longest list of page references passed to one call
MaxRefs == 2
\* largest number of assignments of the batch given to the processor
MaxBatch == 2
\* number of threads that call the processor
MaxCallers == 2
\* the seconds the clock can show after the start
MaxClock == 1
\* largest number of assignments with values and previews
MaxNamed == 3

\* the longest list of names given to reorder_fields
MaxOrder == 4

\* ThumbnailCache.max_size_bytes, and the largest thumbnail file
MaxCacheBytes == 5
MaxThumbnailBytes == 3

\* the counters of renamed files
MaxCounter == 4

\* the frames the interpreter allows (1000 in CPython)
RecursionLimit == 3

(***************************************************************************)
(* PageReference (assignment.py:19-46): file_id and 1-based page_number.   *)
(***************************************************************************)
FileIds == 1..MaxFiles

PageReference == [file_id : FileIds, page_number : 1..MaxPageNumber]

\* page_id is the string "<file_id>:<page_number>"; a uuid holds no colon,
\* so the string is the pair
page_id(ref) == <<ref.file_id, ref.page_number>>

RefLists == UNION {[1..n -> PageReference] : n \in 0..MaxRefs}

(***************************************************************************)
(* Python dict and list helpers.                                           *)
(***************************************************************************)
DictSet(d, k, v) == [x \in (DOMAIN d) \cup {k} |-> IF x = k THEN v ELSE d[x]]

DictPop(d, k) == [x \in (DOMAIN d) \ {k} |-> d[x]]

EmptyDict == << >>

Range(s) == {s[i] : i \in DOMAIN s}

\* list.remove(x): removes the first occurrence
RECURSIVE ListRemove(_, _)
ListRemove(s, x) ==
    IF s = << >> THEN << >>
    ELSE IF Head(s) = x THEN Tail(s)
    ELSE <<Head(s)>> \o ListRemove(Tail(s), x)

VARIABLES
    assignments,          \* AssignmentManager.assignments: id -> PageAssignment
    page_to_assignment,   \* AssignmentManager._page_to_assignment: page_id -> id
    scanned_files,        \* DocumentBatch._file_id_to_file (its keys)
    next_assignment,      \* number of assignment uuids drawn so far
    next_file,            \* number of file uuids drawn so far
    lastCall,             \* the last call made and whether it raised
    pa,                   \* one PageAssignment object
    validated,            \* what the last validate_assignment() of pa returned
    batch,                \* the batch object given to process_batch
    processing_state,     \* batch.processing_state
    is_processing,        \* DocumentProcessor.is_processing
    should_cancel,        \* DocumentProcessor.should_cancel
    current_batch,        \* DocumentProcessor.current_batch ("None" or "batch")
    current_result,       \* DocumentProcessor.current_result
    calls,                \* per calling thread: its call in progress
    tasks,                \* per calling thread: the worker task it submitted
    returned,             \* what the last process_batch that returned gave
    cleanup_temp_files,   \* DocumentProcessor.cleanup_temp_files
    processing_options,   \* the processing_options the callers pass
    verdict,              \* what the last direct call of the engine gave
    existing_files,       \* the files of the output folder with the stem of output_file
    hfc,                  \* the call of _handle_file_conflict and its caller
    now,                  \* datetime.now(), in seconds
    filename_template,    \* IndexSchema.filename_template
    evaluated,            \* two evaluations of the generators on the same inputs
    named,                \* the assignments of a manager, with values and previews
    reported,             \* what the last query of the named assignments returned
    checked_assignments,  \* the list of assignments given to the engine's page check
    duplicate_errors,     \* what _check_duplicate_page_assignments returned
    cnc,                  \* the call of check_naming_conflicts: its loop and its result
    psa,                  \* the steps of _process_single_assignment in a loop of the worker
    mgr,                  \* a call of add_assignment or remove_assignment under way, and what a reader saw
    stamp,                \* PageAssignment.modified_timestamp and the last mutator called
    schema_fields,        \* IndexSchema.fields
    thumbs,               \* ThumbnailCache: its index and the lock
    generator,            \* ThumbnailGenerator: pending_tasks, active_futures and the tasks
    monitor,              \* FileMonitor: the watched directory and what was tracked and emitted
    settings,             \* ConfigurationManager: default_settings and app_settings
    output,               \* what the run has written to the output directory
    history               \* what happened to the run (for the claims)

namingVars == <<now, filename_template, evaluated, named, reported>>

moreVars == <<mgr, stamp, schema_fields, thumbs, generator, monitor, settings>>

extraVars == <<checked_assignments, duplicate_errors, cnc, psa, moreVars>>

procVarsButExtra ==
    <<batch, processing_state, is_processing, should_cancel, current_batch,
      current_result, calls, tasks, returned, cleanup_temp_files,
      processing_options, verdict, existing_files, hfc, namingVars, output,
      history>>

\* the variables of the processor, of the engine and of the schema
baseVars ==
    <<procVarsButExtra, checked_assignments, duplicate_errors, cnc, psa>>

managerVars == <<assignments, page_to_assignment, scanned_files,
                 next_assignment, next_file, lastCall>>

paVars == <<pa, validated>>

configVars == <<cleanup_temp_files, processing_options, verdict,
                existing_files, hfc, namingVars, extraVars>>

procVars == <<batch, processing_state, is_processing, should_cancel,
              current_batch, current_result, calls, tasks, returned,
              cleanup_temp_files, processing_options, verdict,
              existing_files, hfc, namingVars, extraVars, output, history>>

vars == <<assignments, page_to_assignment, scanned_files,
          next_assignment, next_file, lastCall, pa, validated,
          batch, processing_state, is_processing, should_cancel,
          current_batch, current_result, calls, tasks, returned,
          cleanup_temp_files, processing_options, verdict, existing_files, hfc,
          now, filename_template, evaluated, named, reported, extraVars,
          output, history>>

(***************************************************************************)
(* PageAssignment.add_pages (assignment.py:153-161): refs already present  *)
(* are skipped.                                                            *)
(***************************************************************************)
RECURSIVE add_pages(_, _)
add_pages(page_references, refs) ==
    IF refs = << >> THEN page_references
    ELSE add_pages(IF Head(refs) \in Range(page_references)
                   THEN page_references
                   ELSE Append(page_references, Head(refs)),
                   Tail(refs))

\* PageAssignment.get_pages_from_file (assignment.py:208-210)
get_pages_from_file(page_references, file_id) ==
    SelectSeq(page_references, LAMBDA ref : ref.file_id = file_id)

\* PageAssignment.remove_page for each ref of a list (batch.py:158-159)
RECURSIVE remove_pages(_, _)
remove_pages(page_references, refs) ==
    IF refs = << >> THEN page_references
    ELSE remove_pages(ListRemove(page_references, Head(refs)), Tail(refs))

\* PageAssignment.__init__ followed by add_pages
NewAssignment(refs) == [page_references |-> add_pages(<< >>, refs)]

(***************************************************************************)
(* IndexSchema (schema.py:248-535) with two TEXT fields, and the classes   *)
(* of values a field can hold: "" (absent, empty or blank), "ok" (valid),  *)
(* "bad" (a value with an invalid path character, which _validate_text     *)
(* rejects for FOLDER and FILENAME fields) and "long" (a valid value of    *)
(* 300 characters).                                                        *)
(***************************************************************************)
SchemaFields ==
    << [name |-> "Category", role |-> "FOLDER", required |-> TRUE],
       [name |-> "Title", role |-> "FILENAME", required |-> FALSE] >>

FieldNames == {SchemaFields[i].name : i \in DOMAIN SchemaFields}

Values == {"", "ok", "bad", "long"}

ValueLen(v) ==
    CASE v = "" -> 0 [] v = "ok" -> 2 [] v = "bad" -> 3 [] v = "long" -> 300

MAX_FILENAME_LENGTH == 255

MAX_PATH_LENGTH == 260

\* FileMonitor.max_batch_size, file_monitor.py line 63
max_batch_size == 50

\* length of the rendered default template "{timestamp}_{sequential}"
TemplateLen == 19

Min(a, b) == IF a < b THEN a ELSE b

\* IndexField.validate_value (schema.py:44-79)
validate_value(field, value) ==
    IF value = "" THEN ~field.required ELSE value # "bad"

\* IndexSchema.validate_assignment_values (schema.py:516-535)
validate_assignment_values(values) ==
    SelectSeq([i \in DOMAIN SchemaFields |->
                  <<"invalid value", SchemaFields[i].name>>],
              LAMBDA e : \E i \in DOMAIN SchemaFields :
                  /\ SchemaFields[i].name = e[2]
                  /\ ~validate_value(SchemaFields[i], values[e[2]]))

\* the loop over get_required_fields (assignment.py:236-239)
required_errors(values) ==
    SelectSeq([i \in DOMAIN SchemaFields |->
                  <<"required field missing", SchemaFields[i].name>>],
              LAMBDA e : \E i \in DOMAIN SchemaFields :
                  /\ SchemaFields[i].name = e[2]
                  /\ SchemaFields[i].required
                  /\ values[e[2]] = "")

\* the non-empty values of the fields of one role, in display order
RoleParts(values, role) ==
    SelectSeq([i \in DOMAIN SchemaFields |->
                  IF SchemaFields[i].role = role
                  THEN values[SchemaFields[i].name] ELSE ""],
              LAMBDA v : v # "")

RECURSIVE JoinedLen(_)
JoinedLen(parts) ==
    IF parts = << >> THEN 0
    ELSE ValueLen(Head(parts))
         + (IF Tail(parts) = << >> THEN 0 ELSE 1 + JoinedLen(Tail(parts)))

\* IndexSchema.generate_folder_structure (schema.py:367-391): the parts and
\* the length of the joined string
generate_folder_structure(values) == RoleParts(values, "FOLDER")

\* IndexSchema.generate_filename (schema.py:393-448) and
\* AppConstants.get_safe_filename (enums.py:354-371): the parts appended to
\* the rendered template, and the length after truncation
generate_filename(values) == RoleParts(values, "FILENAME")

FilenameLen(values) ==
    LET parts == generate_filename(values)
    IN  Min(MAX_FILENAME_LENGTH,
            TemplateLen + (IF parts = << >> THEN 0 ELSE 1 + JoinedLen(parts)))

\* len(str(DocumentPreview.get_full_path())) (assignment.py:61-65)
FullPathLen(values) ==
    LET folder == generate_folder_structure(values)
    IN  (IF folder = << >> THEN 0 ELSE JoinedLen(folder) + 1)
        + FilenameLen(values) + 4

\* DocumentPreview.validate_paths (assignment.py:80-112): sanitised names
\* hold no invalid character and no reserved name, the length remains
validate_paths(values) ==
    IF FullPathLen(values) > MAX_PATH_LENGTH
    THEN << <<"path too long", "">> >> ELSE << >>

\* PageAssignment.generate_document_preview (assignment.py:264-285)
generate_document_preview(a) ==
    [filename |-> generate_filename(a.index_values),
     folder_path |-> generate_folder_structure(a.index_values),
     page_references |-> a.page_references]

\* PageAssignment.__init__ (assignment.py:126-144)
PageAssignment(schema) ==
    [page_references |-> << >>,
     index_values |-> [n \in FieldNames |-> ""],
     schema |-> schema,
     document_preview |-> << >>,
     is_valid |-> FALSE,
     validation_errors |-> << >>]

\* a preview dropped without the validity
invalidate_preview_only(a) == [a EXCEPT !.document_preview = << >>]

\* PageAssignment._invalidate_preview (assignment.py:287-290)
invalidate_preview(a) ==
    [a EXCEPT !.document_preview = << >>, !.is_valid = FALSE]

\* the errors of PageAssignment.validate_assignment (assignment.py:219-248)
validate_errors(a) ==
    (IF a.page_references = << >> THEN << <<"no pages", "">> >> ELSE << >>)
    \o (IF a.schema = "None" THEN << <<"no schema", "">> >>
        ELSE validate_assignment_values(a.index_values)
             \o required_errors(a.index_values)
             \o validate_paths(a.index_values))

\* the state update of validate_assignment (assignment.py:257-260), which
\* the early return for a missing schema (assignment.py:227-229) skips
UpdatesState(a) == a.schema # "None"

\* PageAssignment.validate_assignment (assignment.py:212-262): the object
\* after the call
validate_assignment_object(a) ==
    IF UpdatesState(a)
    THEN [a EXCEPT !.is_valid = (validate_errors(a) = << >>),
                   !.validation_errors = validate_errors(a),
                   !.document_preview = <<generate_document_preview(a)>>]
    ELSE a

\* the tuple validate_assignment returns
validate_assignment_result(a) ==
    [called |-> TRUE,
     is_valid |-> IF a.schema = "None" THEN FALSE
                  ELSE validate_errors(a) = << >>,
     errors |-> validate_errors(a)]

NotValidated == [called |-> FALSE, is_valid |-> FALSE, errors |-> << >>]

(***************************************************************************)
(* AssignmentManager (assignment.py:376-481).                              *)
(***************************************************************************)
\* _update_page_mapping (assignment.py:459-462)
RECURSIVE update_page_mapping(_, _, _)
update_page_mapping(index, page_references, assignment_id) ==
    IF page_references = << >> THEN index
    ELSE update_page_mapping(
            DictSet(index, page_id(Head(page_references)), assignment_id),
            Tail(page_references), assignment_id)

\* the loop of remove_assignment (assignment.py:396-397)
RECURSIVE pop_page_mapping(_, _)
pop_page_mapping(index, page_references) ==
    IF page_references = << >> THEN index
    ELSE pop_page_mapping(DictPop(index, page_id(Head(page_references))),
                          Tail(page_references))

\* check_page_conflicts (assignment.py:412-418)
check_page_conflicts(refs) ==
    SelectSeq(refs, LAMBDA ref : page_id(ref) \in DOMAIN page_to_assignment)

\* the pages held by the assignments of the manager
HeldPages ==
    {page_id(ref) : ref \in UNION {Range(assignments[a].page_references) :
                                   a \in DOMAIN assignments}}

Holders(p) ==
    {a \in DOMAIN assignments :
        \E ref \in Range(assignments[a].page_references) : page_id(ref) = p}

\* lastCall when the last call was not assign_pages_to_index
NoCall == [op |-> "other", refs |-> << >>, raised |-> FALSE]

(***************************************************************************)
(* DocumentProcessor (document_processor.py:117-582) and the verdict of    *)
(* ValidationEngine.validate_batch_assignments (validation.py:48-102).     *)
(*                                                                         *)
(* The batch given to process_batch is a list of assignments, each with    *)
(* the outcome of its own validation (fields_ok), the output path the      *)
(* schema generates for it, the page it holds and whether the source file  *)
(* of that page can be found.  has_page_assignments tells whether the      *)
(* object carries the attribute page_assignments that the engine reads:    *)
(* DocumentBatch (batch.py:30-54) defines no such attribute.               *)
(***************************************************************************)
Callers == 1..MaxCallers

\* an assignment of the batch as the engine and the worker see it: its schema
\* (None or a schema), whether its values pass the checks of one assignment,
\* the output path its schema generates, whether it has pages, the page it
\* holds and whether the source file of that page can be found
BatchAssignment ==
    [schema : {"None", "Schema"}, fields_ok : BOOLEAN,
     output_path : 1..MaxBatch, has_pages : BOOLEAN, page : 1..MaxBatch,
     resolvable : BOOLEAN]

\* the lists of assignments with schema and pages, up to the names of paths
\* and pages: the i-th assignment has a path and a page of its own (i) or
\* those of an earlier assignment
AssignmentLists ==
    UNION {{l \in [1..n -> BatchAssignment] :
                \A i \in 1..n : /\ l[i].output_path <= i /\ l[i].page <= i
                                /\ l[i].schema = "Schema" /\ l[i].has_pages} :
           n \in 0..MaxBatch}

Batches ==
    [has_page_assignments : BOOLEAN, assignments : AssignmentLists]

\* the lists of assignments the engine may be given, those without schema or
\* without pages included; all sources can be found
ValidationLists ==
    UNION {{l \in [1..n -> BatchAssignment] :
                \A i \in 1..n : /\ l[i].output_path <= i /\ l[i].page <= i
                                /\ l[i].resolvable} :
           n \in 0..MaxBatch}

ValidationBatches ==
    [has_page_assignments : BOOLEAN, assignments : ValidationLists]

\* DocumentBatch.__init__ (batch.py:30-54)
EmptyBatch == [has_page_assignments |-> FALSE, assignments |-> << >>]

\* ValidationEngine._validate_single_assignment (validation.py:104-132):
\* without schema, check_required_fields (lines 228-245),
\* validate_field_values (lines 262-283) and _validate_assignment_paths
\* (lines 529-546) each catch the AttributeError of the read of
\* schema.fields or schema.generate_folder_structure and report it
validate_single_assignment(id, a) ==
    (IF a.schema = "None"
     THEN {<<"validation_error", id>>, <<"schema_validation_error", id>>,
           <<"path_generation_error", id>>}
     ELSE IF a.fields_ok THEN {} ELSE {<<"field_error", id>>})
    \cup (IF a.has_pages THEN {} ELSE {<<"assignment_error", id>>})

\* the assignments for which check_naming_conflicts cannot generate a path
\* (validation.py:160-165)
invalid_paths(page_assignments) ==
    {i \in DOMAIN page_assignments : page_assignments[i].schema = "None"}

\* ValidationEngine.check_naming_conflicts (validation.py:134-184): the
\* paths that more than one assignment generates
check_naming_conflicts(page_assignments) ==
    LET generated == DOMAIN page_assignments \ invalid_paths(page_assignments)
    IN  {path \in {page_assignments[i].output_path : i \in generated} :
            Cardinality({i \in generated :
                            page_assignments[i].output_path = path}) > 1}

\* ValidationEngine._check_duplicate_page_assignments (validation.py:587-619)
check_duplicate_page_assignments(page_assignments) ==
    LET paged == {i \in DOMAIN page_assignments : page_assignments[i].has_pages}
    IN  {pg \in {page_assignments[i].page : i \in paged} :
            Cardinality({i \in paged : page_assignments[i].page = pg}) > 1}

\* the error records validate_batch_assignments collects (validation.py:
\* 68-91); _validate_batch_folder_structure (lines 563-585) reports again
\* the folder errors of the single assignments and nothing else
batch_errors(page_assignments) ==
    UNION {validate_single_assignment(i, page_assignments[i]) :
              i \in DOMAIN page_assignments}
    \cup {<<"invalid_path", i>> : i \in invalid_paths(page_assignments)}
    \cup {<<"duplicate_filename", path>> :
              path \in check_naming_conflicts(page_assignments)}
    \cup {<<"duplicate_page_assignment", pg>> :
              pg \in check_duplicate_page_assignments(page_assignments)}

\* what a call of the engine gives: an exception, or a pair
Raised == [raised |-> TRUE, is_valid |-> FALSE, errors |-> {}]

Returned(is_valid, errors) ==
    [raised |-> FALSE, is_valid |-> is_valid, errors |-> errors]

\* the try block of validate_batch_assignments (validation.py:58-97): the
\* read of batch.page_assignments raises AttributeError when the attribute
\* is missing; is_valid starts True and is cleared with every non-empty
\* list of errors
validate_batch_try(b) ==
    IF ~b.has_page_assignments THEN Raised
    ELSE IF b.assignments = << >> THEN Returned(TRUE, {})
    ELSE LET errors == batch_errors(b.assignments)
         IN  Returned(
                /\ \A i \in DOMAIN b.assignments :
                        validate_single_assignment(i, b.assignments[i]) = {}
                /\ invalid_paths(b.assignments) = {}
                /\ check_naming_conflicts(b.assignments) = {}
                /\ check_duplicate_page_assignments(b.assignments) = {},
                errors)

\* an engine without the handler of lines 99-102
except_Exception_missing(r) == r

\* the handler of validate_batch_assignments (validation.py:99-102)
except_Exception(r) ==
    IF r.raised THEN Returned(FALSE, {<<"system_error", 0>>}) ELSE r

\* ValidationEngine.validate_batch_assignments (validation.py:48-102): what
\* the call gives
validate_batch_result(b) == except_Exception(validate_batch_try(b))

\* the checks of validate_batch_assignments on the list it is given
\* (validation.py:61-97)
validate_page_assignments(page_assignments) ==
    \/ page_assignments = << >>
    \/ batch_errors(page_assignments) = {}

\* ValidationEngine.validate_batch_assignments (validation.py:48-102): the
\* verdict process_batch reads (document_processor.py:189)
validate_batch_assignments(b) == validate_batch_result(b).is_valid

\* no call of the engine yet
NoVerdict == [called |-> FALSE, raised |-> FALSE, is_valid |-> FALSE,
              errors |-> {}]

\* process_batch without its guard
AlreadyProcessing_unguarded == FALSE

\* the guard of process_batch (document_processor.py:177-179)
AlreadyProcessing == is_processing

\* process_batch going on whatever the verdict
Proceeds_whatever(is_valid) == TRUE

\* the test of the verdict in process_batch (document_processor.py:190)
Proceeds(is_valid) == is_valid

\* a loop that never looks at the cancel flag
CancelSeen_never == FALSE

\* the test of the cancel flag at the top of the loop
\* (document_processor.py:238-239)
CancelSeen == should_cancel

\* BatchProcessingResult.__init__ (document_processor.py:57-68)
NoResult ==
    [batch_id |-> "None", total_assignments |-> 0, assignment_results |-> << >>,
     successful_assignments |-> 0, failed_assignments |-> 0,
     completed |-> FALSE]

BatchProcessingResult(total) ==
    [NoResult EXCEPT !.batch_id = "batch", !.total_assignments = total]

\* BatchProcessingResult.add_result (document_processor.py:84-93)
add_result(result, r) ==
    [result EXCEPT !.assignment_results = Append(@, r),
                   !.successful_assignments = IF r.success THEN @ + 1 ELSE @,
                   !.failed_assignments = IF r.success THEN @ ELSE @ + 1]

\* DocumentProcessor.conflict_resolution (document_processor.py:147)
conflict_resolution == "PROMPT_USER"

\* _handle_file_conflict (document_processor.py:376-396): the PROMPT_USER
\* branch calls itself with the same arguments until RecursionError
handle_file_conflict(policy) ==
    CASE policy = "OVERWRITE" -> "write"
      [] policy = "AUTO_RENAME" -> "write"
      [] policy = "SKIP_DUPLICATE" -> "raise"
      [] OTHER -> "raise"

\* ProcessingResult (document_processor.py:28-39)
ProcessingResult(assignment_id, success) ==
    [assignment_id |-> assignment_id, success |-> success]

\* what stops _process_single_assignment, given whether the destination
\* exists and whether the PDF service merges the pages: the conflict
\* (lines 311-313), a source file that is not found (lines 316-323), the
\* merge (lines 329-332), or nothing
raised_in_assignment(a, dest_exists, merge_ok) ==
    IF dest_exists /\ handle_file_conflict(conflict_resolution) = "raise"
    THEN "conflict"
    ELSE IF ~a.resolvable THEN "source"
    ELSE IF ~merge_ok THEN "merge"
    ELSE "nothing"

\* _process_single_assignment (document_processor.py:296-366): every
\* exception is caught and gives a failed result
process_single_assignment(id, a, dest_exists, merge_ok) ==
    ProcessingResult(id, raised_in_assignment(a, dest_exists, merge_ok)
                             = "nothing")

\* a caller between two calls
NoCallInProgress == [op |-> "none", pc |-> "idle"]

\* what the last call of process_batch that returned gave its caller: the
\* return value, the verdict of validation ("None" when it was not
\* reached), whether processing_error was emitted and whether a task was
\* submitted
NoReturn ==
    [ret |-> "None", is_valid |-> "None", error_emitted |-> FALSE,
     submitted |-> FALSE]

Return(ret) == [NoReturn EXCEPT !.ret = ret]

\* no worker task: where it is in _process_batch_internal, the number of
\* the assignment it is at, its copy of the list of assignments, the value
\* of should_cancel it read at line 263 and the signal it emitted last
NoTask == [pc |-> "none", i |-> 0, snapshot |-> << >>, cancel_read |-> FALSE,
           signal |-> "none"]

\* what the run has created in the output directory
NoOutput == [directory |-> FALSE, files |-> {}, summary |-> FALSE]

\* since the last entry of process_batch: the number of assignments started
\* when the cancel flag was set (-1: not set between two assignments),
\* whether cancel_processing wrote anything, and whether the environment
\* failed (an option, the output directory, a conflict, the merge), and
\* whether the worker called _cleanup_temp_files
NoHistory ==
    [cancel_k |-> -1, cancel_requested |-> FALSE, fault |-> FALSE,
     cleaned |-> FALSE]

\* the callers whose worker task has not finished
ActiveTasks == {c \in Callers : tasks[c].pc # "none"}

\* the runs under way: a call of process_batch between its entry and its
\* failure or its submission, or a worker task that has not finished
Runs ==
    {c \in Callers :
        \/ calls[c].pc \in {"validate", "init", "prepare", "submit"}
        \/ tasks[c].pc # "none"}

RunActive == Runs # {}

(***************************************************************************)
(* IndexSchema.generate_filename (schema.py:393-448) with the clock it     *)
(* reads.  The schema is the one of SchemaFields; a filename is the        *)
(* sequence of the pieces that "_" joins: a rendered timestamp, a rendered *)
(* sequential number or a text.  Two filenames are the same string exactly *)
(* when their pieces are the same.                                         *)
(***************************************************************************)
\* "{timestamp}_{sequential}" (schema.py:261)
DefaultTemplate == <<"timestamp", "sequential">>

\* the default template and the template "{title}"
Templates == {DefaultTemplate, <<"title">>}

\* a title without invalid characters and one with ":" (enums.py:342)
TitleValues == {"", "a_b", "a:b"}

CategoryValues == {"", "c"}

IndexValues == [Category : CategoryValues, Title : TitleValues]

\* timestamp: Optional[datetime] = None (schema.py:394)
NoneTime == -1

\* sequential: Optional[int] = None (schema.py:395)
NoneSequential == -1

Times == 0..MaxClock

\* AppConstants.has_invalid_chars (enums.py:350-352)
has_invalid_chars(value) == value = "a:b"

\* AppConstants.get_safe_filename (enums.py:355-371): every invalid character
\* becomes "_"; the values are neither reserved names nor too long
get_safe_filename(value) == IF has_invalid_chars(value) THEN "a_b" ELSE value

Text(value) == [kind |-> "text", text |-> value, num |-> 0]

\* timestamp.strftime('%Y%m%d_%H%M%S') (schema.py:420)
Timestamp(t) == [kind |-> "timestamp", text |-> "", num |-> t]

\* f"{sequential:03d}" (schema.py:421)
Sequential(n) == [kind |-> "sequential", text |-> "", num |-> n]

\* the loop over the FILENAME fields (schema.py:406-417)
filename_parts(values) ==
    IF values.Title = "" THEN << >>
    ELSE <<Text(get_safe_filename(values.Title))>>

\* template_vars (schema.py:419-430): without a timestamp the clock is read
template_vars(values, timestamp, sequential, clock) ==
    [key \in {"timestamp", "sequential"}
              \cup (IF values.Category = "" THEN {} ELSE {"category"})
              \cup (IF values.Title = "" THEN {} ELSE {"title"}) |->
        CASE key = "timestamp" ->
                Timestamp(IF timestamp # NoneTime THEN timestamp ELSE clock)
          [] key = "sequential" ->
                Sequential(IF sequential # NoneSequential THEN sequential ELSE 1)
          [] key = "category" -> Text(get_safe_filename(values.Category))
          [] key = "title" -> Text(get_safe_filename(values.Title))]

\* IndexSchema.generate_filename (schema.py:393-448), evaluated when the
\* clock shows clock
generate_filename_at(template, values, timestamp, sequential, clock) ==
    LET vs == template_vars(values, timestamp, sequential, clock)
        parts == filename_parts(values)
        formatted ==
            IF \A i \in DOMAIN template : template[i] \in DOMAIN vs
            THEN [i \in DOMAIN template |-> vs[template[i]]]
            ELSE <<vs["timestamp"]>> \o parts
        filename ==
            IF parts # << >> /\ ~\E i \in DOMAIN parts : parts[i] \in Range(formatted)
            THEN formatted \o parts
            ELSE formatted
    IN  [i \in DOMAIN filename |->
            IF filename[i].kind = "text"
            THEN Text(get_safe_filename(filename[i].text))
            ELSE filename[i]]

\* DocumentPreview.get_full_path (assignment.py:61-65)
get_full_path(folder_path, filename) ==
    [folder_path |-> folder_path, filename |-> filename]

\* PageAssignment.generate_document_preview (assignment.py:264-285): the
\* path of the preview of an assignment with values
preview_path(template, a) ==
    get_full_path(generate_folder_structure(a.index_values),
                  generate_filename_at(template, a.index_values,
                                       a.created_timestamp, 1, a.created_timestamp))

\* the assignments with a cached preview
Previewed(list) == {i \in DOMAIN list : list[i].document_preview # << >>}

\* AssignmentManager.get_filename_conflicts (assignment.py:437-457): an
\* assignment whose path is in path_to_assignments is reported with the
\* assignment that put the path there, the first with that path
get_filename_conflicts(list) ==
    {<<j, i>> \in Previewed(list) \X Previewed(list) :
        /\ j < i
        /\ list[j].document_preview = list[i].document_preview
        /\ \A k \in Previewed(list) :
              list[k].document_preview = list[i].document_preview => j <= k}

\* PageAssignment.validate_assignment (assignment.py:212-262) of an
\* assignment with a schema, a page and a category: the title is checked
\* by IndexField._validate_text (schema.py:99-104)
named_is_valid(a) == ~has_invalid_chars(a.index_values.Title)

\* the assignments after validate_all_assignments (assignment.py:424-435):
\* validate_assignment caches the preview of each (assignment.py:243)
validate_all_assignments(template, list) ==
    [i \in DOMAIN list |->
        [list[i] EXCEPT !.document_preview = <<preview_path(template, list[i])>>]]

\* DocumentBatch.validate_assignments (batch.py:293-358): results['is_valid']
\* of a batch with a schema applied
validate_assignments_is_valid(template, list) ==
    /\ get_filename_conflicts(validate_all_assignments(template, list)) = {}
    /\ \A i \in DOMAIN list : named_is_valid(list[i])

NoEvaluation ==
    [calls |-> 0,
     values |-> [Category |-> "", Title |-> ""],
     timestamp |-> NoneTime, sequential |-> NoneSequential,
     first |-> get_full_path(<< >>, << >>), second |-> get_full_path(<< >>, << >>)]

NoReport == [op |-> "none", conflicts |-> {}, is_valid |-> FALSE]

\* the pairs (assignment, page_id) in the order the loops of
\* _check_duplicate_page_assignments meet them (validation.py:594-596)
RECURSIVE page_claims(_, _)
page_claims(list, i) ==
    IF i > Len(list) THEN << >>
    ELSE [k \in DOMAIN list[i].page_references |->
             [assignment_id |-> i, page_id |-> page_id(list[i].page_references[k])]]
         \o page_claims(list, i + 1)

\* page_assignments[page_id] after the loops (validation.py:598-601): one
\* entry of the list per page reference met
claiming_ids(list, pid) ==
    LET met == SelectSeq(page_claims(list, 1), LAMBDA c : c.page_id = pid)
    IN  [k \in DOMAIN met |-> met[k].assignment_id]

\* ValidationEngine._check_duplicate_page_assignments (validation.py:587-619)
\* on assignments whose page_references are lists
duplicate_page_errors(list) ==
    {[type |-> "duplicate_page_assignment", page_id |-> pid,
      conflicting_assignments |-> claiming_ids(list, pid)] :
        pid \in {q \in {c.page_id : c \in Range(page_claims(list, 1))} :
                    Len(claiming_ids(list, q)) > 1}}

\* no list checked
NoDuplicateCheck == [called |-> FALSE, errors |-> {}]

\* check_naming_conflicts not called: the paths generated so far, one for
\* each assignment met, and the groups reported
NoNamingCheck == [pc |-> "none", paths |-> << >>, conflicts |-> {}]

\* no loop over assignments: the number of assignments, the one the loop is
\* at, the policy, what the assignment finds (an existing destination,
\* index values, preserve_timestamps), the steps it has taken, the step
\* that raised and the results recorded
NoSteps ==
    [pc |-> "none", n |-> 0, i |-> 0, policy |-> "PROMPT_USER",
     dest_exists |-> FALSE, has_values |-> FALSE, preserve_timestamps |-> FALSE,
     next |-> 1, steps |-> << >>, failed_step |-> "None", results |-> << >>]

\* no call of the manager under way: the mutator that runs, the
\* assignment it is writing, and whether a reader has found the map of
\* assignments and the page index apart
NoManagerCall == [pc |-> "idle", id |-> 0, read |-> FALSE, torn |-> FALSE]

\* PageAssignment.modified_timestamp as __init__ sets it
\* (assignment.py:143-144), the method called last, when it was called,
\* whether it changed the pages or the values, the timestamp before it, and
\* whether the assignment was valid with a cached preview before it
NoStamp ==
    [modified_timestamp |-> 0, last |-> "init", at |-> 0, changed |-> FALSE,
     before |-> 0, was_valid |-> FALSE]

\* IndexSchema.fields after __init__ (schema.py:260), the names of the
\* fields in list order, and whether the last call raised
\* SchemaValidationError
NoFields == [fields |-> << >>, raised |-> FALSE]

\* ThumbnailCache after __init__ on an empty directory
\* (thumbnail_generator.py:53-69): _cache_index (cache_key -> file_size),
\* _access_times, the time, whether _cache_lock is held, where the call of
\* add_thumbnail is, the access times of the entries the last cleanup
\* evicted, in order, and whether the index was read or written while the
\* lock was not held
NoThumbnails ==
    [index |-> << >>, access |-> << >>, clock |-> 0, locked |-> FALSE,
     pc |-> "idle", evicted |-> << >>, unlocked |-> FALSE]

\* ThumbnailGenerator after __init__ (thumbnail_generator.py:308-311):
\* pending_tasks and active_futures (their keys), the state of the task of
\* each id in the pool, where the call of generate_thumbnail is and for
\* which task, the number of calls, and whether a call was rejected as a
\* duplicate when the task of that id had finished
NoGeneration ==
    [pending_tasks |-> {}, active_futures |-> {},
     pool |-> [t \in FileIds |-> "none"],
     pc |-> "idle", task_id |-> 0, calls |-> 0, rejected_finished |-> FALSE]

\* FileMonitor.__init__, lines 41-68; emitted, retracked and redelivered are
\* history of the monitoring session, directory is the watched directory
NoMonitor ==
    [is_monitoring |-> FALSE, directory |-> {}, pending_files |-> {},
     completed_files |-> {}, last_batch_time |-> "None", blocked |-> FALSE,
     emitted |-> {}, retracked |-> {}, redelivered |-> {}]

\* two sections of the defaults tree of ConfigurationManager.__init__
\* (config.py lines 38-111), each value written as its JSON text
SettingSections == {"ui", "export"}

SettingKeys(section) ==
    IF section = "ui" THEN {"default_thumbnail_size", "show_page_numbers"}
    ELSE {"default_quality", "compress_output"}

\* lines 50-51, 53, 81-82 and 86
HardCoded ==
    [section \in SettingSections |->
        [k \in SettingKeys(section) |->
            CASE k = "default_thumbnail_size" -> "150"
              [] k = "show_page_numbers" -> "true"
              [] k = "default_quality" -> "medium"
              [] k = "compress_output" -> "false"]]

\* ConfigurationManager.__init__, lines 35 and 38: current_settings is an
\* empty dict.  current_settings[section] names the dict object a section
\* of current_settings refers to: the one of default_settings or its own.
NoSettings ==
    [default_settings |-> HardCoded,
     current_settings |-> [section \in SettingSections |-> "absent"],
     own |-> [section \in SettingSections |->
                [k \in SettingKeys(section) |-> "absent"]],
     last |-> "init", missing |-> {}]

InitMore ==
    /\ mgr = NoManagerCall
    /\ stamp = NoStamp
    /\ schema_fields = NoFields
    /\ thumbs = NoThumbnails
    /\ generator = NoGeneration
    /\ monitor = NoMonitor
    /\ settings = NoSettings

InitExtra ==
    /\ checked_assignments = << >>
    /\ duplicate_errors = NoDuplicateCheck
    /\ cnc = NoNamingCheck
    /\ psa = NoSteps
    /\ InitMore

\* no schema evaluated and no assignment with values
InitNaming ==
    /\ now = 0
    /\ filename_template = DefaultTemplate
    /\ evaluated = NoEvaluation
    /\ named = << >>
    /\ reported = NoReport

\* A file of the output folder is the sequence of the counters appended to
\* the stem of output_file: << >> is <stem>.pdf, <<2>> is <stem>_2.pdf and
\* <<1, 2>> is <stem>_1_2.pdf.
\* <stem>_1_2_..._n.pdf
Chain(n) == [i \in 1..n |-> i]

\* the files that can be in the folder: <stem>.pdf, <stem>_n.pdf and
\* <stem>_1_..._n.pdf for n up to MaxCounter
FileNames ==
    {<< >>} \cup {<<n>> : n \in 1..MaxCounter}
                     \cup {Chain(n) : n \in 1..MaxCounter}

\* ConflictResolution (enums.py)
ConflictResolution == {"OVERWRITE", "AUTO_RENAME", "SKIP_DUPLICATE", "PROMPT_USER"}

\* no assignment being written
NoConflict ==
    [pc |-> "none", policy |-> "PROMPT_USER", output_file |-> << >>,
     counter |-> 0, depth |-> 0, error |-> "None"]

\* DocumentProcessor.__init__ (document_processor.py:128-160)
InitRun ==
    /\ processing_state = "IDLE"
    /\ is_processing = FALSE
    /\ should_cancel = FALSE
    /\ current_batch = "None"
    /\ current_result = NoResult
    /\ calls = [c \in Callers |-> NoCallInProgress]
    /\ tasks = [c \in Callers |-> NoTask]
    /\ returned = NoReturn
    /\ cleanup_temp_files = TRUE
    /\ verdict = NoVerdict
    /\ output = NoOutput
    /\ history = NoHistory

\* DocumentProcessor.__init__ (document_processor.py:128-160), no assignment
\* being written
InitProcessor ==
    /\ InitRun
    /\ existing_files = {}
    /\ hfc = NoConflict
    /\ InitNaming
    /\ InitExtra

(***************************************************************************)
(* process_batch (document_processor.py:162-224), one step per statement   *)
(* that reads or writes shared state.                                      *)
(***************************************************************************)
\* lines 176-182, under the mutex
pb_enter(c) ==
    /\ calls[c].pc = "idle"
    /\ IF AlreadyProcessing
       THEN /\ returned' = Return("False")
            /\ calls' = [calls EXCEPT ![c] = NoCallInProgress]
            /\ UNCHANGED <<is_processing, should_cancel, output, history>>
       ELSE /\ is_processing' = TRUE
            /\ should_cancel' = FALSE
            /\ calls' = [calls EXCEPT ![c] = [op |-> "process_batch",
                                              pc |-> "validate"]]
            /\ output' = NoOutput
            /\ history' = NoHistory
            /\ UNCHANGED returned
    /\ UNCHANGED <<managerVars, paVars, configVars, batch, processing_state,
                   current_batch, current_result, tasks>>

\* the processing_options a caller may pass: none, a dict with a value
\* that _apply_processing_options rejects (document_processor.py:476-480),
\* or {'cleanup_temp_files': False} (document_processor.py:488-489)
NoOptions == {"None"}

OptionsRaise(options) == options = "invalid"

\* _apply_processing_options (document_processor.py:474-497) on
\* cleanup_temp_files
apply_cleanup_option(options) ==
    IF options = "no_cleanup" THEN FALSE ELSE cleanup_temp_files

\* lines 185-195 and 219-224: the options are applied and the batch is
\* validated; nothing of this is seen by the other threads but the release
\* of is_processing when a bad option value raises or the batch is invalid
pb_validate(c) ==
    /\ calls[c].pc = "validate"
    /\ \E options \in processing_options :
        LET is_valid == validate_batch_assignments(batch)
        IN  IF OptionsRaise(options)
            THEN /\ is_processing' = FALSE
                 /\ calls' = [calls EXCEPT ![c] = NoCallInProgress]
                 /\ returned' = [Return("False") EXCEPT !.error_emitted = TRUE]
                 /\ history' = [history EXCEPT !.fault = TRUE]
                 /\ UNCHANGED cleanup_temp_files
            ELSE /\ cleanup_temp_files' = apply_cleanup_option(options)
                 /\ IF Proceeds(is_valid)
                    THEN /\ calls' = [calls EXCEPT ![c].pc = "init"]
                         /\ UNCHANGED <<is_processing, returned, history>>
                    ELSE /\ is_processing' = FALSE
                         /\ calls' = [calls EXCEPT ![c] = NoCallInProgress]
                         /\ returned' = [Return("False") EXCEPT
                                            !.is_valid = "False",
                                            !.error_emitted = TRUE]
                         /\ UNCHANGED history
    /\ UNCHANGED <<managerVars, paVars, batch, processing_state, should_cancel,
                   current_batch, current_result, tasks, output,
                   processing_options, verdict, existing_files, hfc, namingVars, extraVars>>

\* lines 198-201
pb_init(c) ==
    /\ calls[c].pc = "init"
    /\ current_batch' = "batch"
    /\ current_result' = BatchProcessingResult(Len(batch.assignments))
    /\ calls' = [calls EXCEPT ![c].pc = "prepare"]
    /\ UNCHANGED <<managerVars, paVars, configVars, returned, batch, processing_state,
                   is_processing,
                   should_cancel, tasks, output, history>>

\* line 204
pb_prepare(c) ==
    /\ calls[c].pc = "prepare"
    /\ processing_state' = "PREPARING"
    /\ calls' = [calls EXCEPT ![c].pc = "submit"]
    /\ UNCHANGED <<managerVars, paVars, configVars, returned, batch, is_processing,
                   should_cancel,
                   current_batch, current_result, tasks, output, history>>

\* lines 207-217: the task is submitted; the signals, the timer and the
\* log that follow touch nothing the other threads read
pb_submit(c) ==
    /\ calls[c].pc = "submit"
    /\ tasks' = [tasks EXCEPT ![c] = [NoTask EXCEPT !.pc = "start"]]
    /\ calls' = [calls EXCEPT ![c] = NoCallInProgress]
    /\ returned' = [Return("True") EXCEPT !.is_valid = "True",
                                          !.submitted = TRUE]
    /\ UNCHANGED <<managerVars, paVars, configVars, batch, processing_state, is_processing,
                   should_cancel, current_batch, current_result, output,
                   history>>

(***************************************************************************)
(* cancel_processing (document_processor.py:516-532).                      *)
(***************************************************************************)
\* lines 519-520
cp_check(c) ==
    /\ calls[c].pc = "idle"
    /\ IF is_processing
       THEN calls' = [calls EXCEPT ![c] = [op |-> "cancel_processing",
                                           pc |-> "cancel_flag"]]
       ELSE calls' = [calls EXCEPT ![c] = NoCallInProgress]
    /\ UNCHANGED <<managerVars, paVars, configVars, batch, processing_state, is_processing,
                   should_cancel, current_batch, current_result, tasks,
                   returned, output, history>>

\* the number of assignments the worker has started when the flag is set
\* between the start of one assignment and the start of the next; -1 at
\* any other moment
StartedWhenCancelled ==
    IF \E c \in Callers : tasks[c].pc = "process"
    THEN (CHOOSE n \in 0..MaxBatch + 1 :
            \E c \in Callers : tasks[c].pc = "process" /\ tasks[c].i = n)
    ELSE IF \E c \in Callers : tasks[c].pc = "loop"
    THEN (CHOOSE n \in 0..MaxBatch + 1 :
            \E c \in Callers : tasks[c].pc = "loop" /\ tasks[c].i = n + 1)
    ELSE -1

\* line 523
cp_flag(c) ==
    /\ calls[c].pc = "cancel_flag"
    /\ should_cancel' = TRUE
    /\ calls' = [calls EXCEPT ![c].pc = "cancel_state"]
    /\ history' = [history EXCEPT
            !.cancel_requested = TRUE,
            !.cancel_k = IF should_cancel \/ Cardinality(ActiveTasks) # 1
                         THEN @ ELSE StartedWhenCancelled]
    /\ UNCHANGED <<managerVars, paVars, configVars, returned, batch, processing_state,
                   is_processing,
                   current_batch, current_result, tasks, output>>

\* lines 525-528
cp_state(c) ==
    /\ calls[c].pc = "cancel_state"
    /\ processing_state' = IF current_batch # "None" THEN "CANCELLED"
                           ELSE processing_state
    /\ calls' = [calls EXCEPT ![c] = NoCallInProgress]
    /\ history' = [history EXCEPT !.cancel_requested = TRUE]
    /\ UNCHANGED <<managerVars, paVars, configVars, batch, is_processing, should_cancel,
                   current_batch, current_result, tasks, returned, output>>

(***************************************************************************)
(* _process_batch_internal (document_processor.py:226-294), the worker     *)
(* task submitted by caller c.                                             *)
(***************************************************************************)
\* lines 229-230: the output directory is created, or mkdir raises
w_mkdir(c) ==
    /\ tasks[c].pc = "start"
    /\ \/ /\ output' = [output EXCEPT !.directory = TRUE]
          /\ tasks' = [tasks EXCEPT ![c].pc = "set_processing"]
          /\ UNCHANGED history
       \/ /\ tasks' = [tasks EXCEPT ![c].pc = "error"]
          /\ history' = [history EXCEPT !.fault = TRUE]
          /\ UNCHANGED output
    /\ UNCHANGED <<managerVars, paVars, configVars, returned, batch, processing_state,
                   is_processing,
                   should_cancel, current_batch, current_result, calls>>

\* line 232
w_processing(c) ==
    /\ tasks[c].pc = "set_processing"
    /\ processing_state' = "PROCESSING"
    /\ tasks' = [tasks EXCEPT ![c].pc = "snapshot"]
    /\ UNCHANGED <<managerVars, paVars, configVars, returned, batch, is_processing,
                   should_cancel,
                   current_batch, current_result, calls, output, history>>

\* line 235
w_snapshot(c) ==
    /\ tasks[c].pc = "snapshot"
    /\ tasks' = [tasks EXCEPT ![c].pc = "loop", ![c].i = 1,
                              ![c].snapshot = batch.assignments]
    /\ UNCHANGED <<managerVars, paVars, configVars, returned, batch, processing_state,
                   is_processing,
                   should_cancel, current_batch, current_result, calls, output,
                   history>>

\* lines 237-239: the next assignment starts, or the loop ends
w_loop(c) ==
    /\ tasks[c].pc = "loop"
    /\ tasks' = [tasks EXCEPT ![c].pc =
            IF tasks[c].i > Len(tasks[c].snapshot) \/ CancelSeen
            THEN "summary" ELSE "process"]
    /\ UNCHANGED <<managerVars, paVars, configVars, returned, batch, processing_state,
                   is_processing,
                   should_cancel, current_batch, current_result, calls, output,
                   history>>

\* a loop that leaves out every other assignment of the snapshot
NextInSnapshot_skipping(i) == i + 2

\* enumerate(assignments) (document_processor.py:237): the assignment after
\* the i-th of the snapshot
NextInSnapshot(i) == i + 1

\* lines 241-256
w_process(c) ==
    /\ tasks[c].pc = "process"
    /\ \E dest_exists \in BOOLEAN, merge_ok \in BOOLEAN :
        LET i == tasks[c].i
            a == tasks[c].snapshot[i]
            r == process_single_assignment(i, a, dest_exists, merge_ok)
        IN  /\ current_result' = add_result(current_result, r)
            /\ output' = IF r.success
                         THEN [output EXCEPT !.files = @ \cup {i}]
                         ELSE output
            /\ history' =
                 IF raised_in_assignment(a, dest_exists, merge_ok)
                        \in {"conflict", "merge"}
                 THEN [history EXCEPT !.fault = TRUE]
                 ELSE history
            /\ tasks' = [tasks EXCEPT ![c].pc = "loop", ![c].i = NextInSnapshot(i)]
    /\ UNCHANGED <<managerVars, paVars, configVars, returned, batch, processing_state,
                   is_processing,
                   should_cancel, current_batch, calls>>

\* lines 259-260 (create_summary is True, document_processor.py:150):
\* _create_processing_summary catches its own exceptions
w_summary(c) ==
    /\ tasks[c].pc = "summary"
    /\ output' = IF ~should_cancel THEN [output EXCEPT !.summary = TRUE]
                 ELSE output
    /\ tasks' = [tasks EXCEPT ![c].pc = "read_cancel"]
    /\ UNCHANGED <<managerVars, paVars, configVars, returned, batch, processing_state,
                   is_processing,
                   should_cancel, current_batch, current_result, calls, history>>

\* line 263, the read of should_cancel
w_read_cancel(c) ==
    /\ tasks[c].pc = "read_cancel"
    /\ tasks' = [tasks EXCEPT ![c].pc = "set_state",
                              ![c].cancel_read = should_cancel]
    /\ UNCHANGED <<managerVars, paVars, configVars, returned, batch, processing_state,
                   is_processing,
                   should_cancel, current_batch, current_result, calls, output,
                   history>>

\* the state the worker writes at line 263
FinalState(cancelled) == IF cancelled THEN "CANCELLED" ELSE "COMPLETED"

\* lines 263-264, the write of batch.processing_state
w_set_state(c) ==
    /\ tasks[c].pc = "set_state"
    /\ processing_state' = FinalState(tasks[c].cancel_read)
    /\ current_result' = [current_result EXCEPT !.completed = TRUE]
    /\ tasks' = [tasks EXCEPT ![c].pc = "emit"]
    /\ UNCHANGED <<managerVars, paVars, configVars, returned, batch, is_processing,
                   should_cancel,
                   current_batch, calls, output, history>>

\* lines 270-275
w_emit(c) ==
    /\ tasks[c].pc = "emit"
    /\ tasks' = [tasks EXCEPT ![c].pc = "release",
                              ![c].signal = IF should_cancel
                                            THEN "processing_cancelled"
                                            ELSE "processing_completed"]
    /\ UNCHANGED <<managerVars, paVars, configVars, returned, batch, processing_state,
                   is_processing,
                   should_cancel, current_batch, current_result, calls, output,
                   history>>

\* a worker that returns from its except handler without releasing
AfterHandler_returns == "none"

\* the finally block (lines 287-294) follows the handler of lines 280-285
AfterHandler == "release"

\* lines 280-285
w_error(c) ==
    /\ tasks[c].pc = "error"
    /\ processing_state' = "ERROR"
    /\ tasks' = [tasks EXCEPT ![c].pc = AfterHandler,
                              ![c].signal = "processing_error"]
    /\ UNCHANGED <<managerVars, paVars, configVars, returned, batch, is_processing,
                   should_cancel,
                   current_batch, current_result, calls, output, history>>

\* a cleanup that is not in the finally block: skipped when the run failed
cleanup_called_unless_error ==
    cleanup_temp_files /\ processing_state # "ERROR"

\* the test of lines 289-290 in the finally block
cleanup_called == cleanup_temp_files

\* lines 287-294: _cleanup_temp_files is called if cleanup_temp_files is
\* set and, under the mutex, the processor is released
w_release(c) ==
    /\ tasks[c].pc = "release"
    /\ is_processing' = FALSE
    /\ current_batch' = "None"
    /\ tasks' = [tasks EXCEPT ![c] = NoTask]
    /\ history' = [history EXCEPT !.cleaned = cleanup_called]
    /\ UNCHANGED <<managerVars, paVars, returned, batch, processing_state,
                   should_cancel, current_result, calls, output, configVars>>

process_batch ==
    \E c \in Callers :
        \/ pb_enter(c) \/ pb_validate(c)
        \/ pb_init(c) \/ pb_prepare(c) \/ pb_submit(c)

cancel_processing ==
    \E c \in Callers : cp_check(c) \/ cp_flag(c) \/ cp_state(c)

process_batch_internal ==
    \E c \in Callers :
        \/ w_mkdir(c) \/ w_processing(c) \/ w_snapshot(c) \/ w_loop(c)
        \/ w_process(c) \/ w_summary(c) \/ w_read_cancel(c) \/ w_set_state(c)
        \/ w_emit(c) \/ w_error(c) \/ w_release(c)

NextProcessor == process_batch \/ cancel_processing \/ process_batch_internal

\* a processor and the batch it is given
InitProc ==
    /\ assignments = EmptyDict
    /\ page_to_assignment = EmptyDict
    /\ scanned_files = {}
    /\ next_assignment = 0
    /\ next_file = 0
    /\ lastCall = NoCall
    /\ pa = PageAssignment("None")
    /\ validated = NotValidated
    /\ batch \in Batches
    /\ processing_options = {"None", "invalid"}
    /\ InitProcessor

SpecProc == InitProc /\ [][NextProcessor]_vars

\* AssignmentManager.add_assignment and remove_assignment
\* (assignment.py:384-402) called by another thread on the manager of the
\* batch after process_batch has counted the assignments (line 199) and
\* before the worker copies them (line 235)
mutate_batch ==
    /\ \E c \in Callers :
          \/ calls[c].pc \in {"prepare", "submit"}
          \/ tasks[c].pc \in {"start", "set_processing", "snapshot"}
    /\ LET n == Len(batch.assignments)
       IN  \/ /\ n < MaxBatch
              /\ batch' = [batch EXCEPT !.assignments =
                    Append(@, [schema |-> "Schema", fields_ok |-> TRUE,
                               output_path |-> n + 1, has_pages |-> TRUE,
                               page |-> n + 1, resolvable |-> TRUE])]
           \/ /\ n > 0
              /\ batch' = [batch EXCEPT !.assignments = SubSeq(@, 1, n - 1)]
    /\ UNCHANGED <<managerVars, paVars, configVars, returned, processing_state,
                   is_processing, should_cancel, current_batch, current_result,
                   calls, tasks, output, history>>

NextMutation == NextProcessor \/ mutate_batch

\* a processor and a batch that has page_assignments
InitMutation ==
    /\ assignments = EmptyDict
    /\ page_to_assignment = EmptyDict
    /\ scanned_files = {}
    /\ next_assignment = 0
    /\ next_file = 0
    /\ lastCall = NoCall
    /\ pa = PageAssignment("None")
    /\ validated = NotValidated
    /\ batch \in {b \in Batches : b.has_page_assignments}
    /\ processing_options = {"None", "invalid"}
    /\ InitProcessor

SpecMutation == InitMutation /\ [][NextMutation]_vars

\* a call of process_batch that has entered goes on to its return
pb_continue ==
    \E c \in Callers :
        pb_validate(c) \/ pb_init(c) \/ pb_prepare(c) \/ pb_submit(c)

\* the thread of a caller inside process_batch and the thread of the pool
\* that runs the submitted task are scheduled again and again, and the
\* calls they make return; whether and when process_batch and
\* cancel_processing are called is up to the callers
\* a processor and a batch whose assignments have values that pass, paths
\* and pages of their own and sources that can be found; the batch is
\* rejected by validation when it lacks page_assignments, and an
\* assignment fails when its conflict or its merge raises
InitProcLive ==
    /\ InitProc
    /\ \A i \in DOMAIN batch.assignments :
          /\ batch.assignments[i].fields_ok
          /\ batch.assignments[i].output_path = i
          /\ batch.assignments[i].page = i
          /\ batch.assignments[i].resolvable

SpecProcLive ==
    /\ InitProcLive
    /\ [][NextProcessor]_vars
    /\ WF_vars(pb_continue)
    /\ WF_vars(process_batch_internal)

\* a processor whose callers may switch the cleanup off, and a batch that
\* passes validation
InitOptions ==
    /\ assignments = EmptyDict
    /\ page_to_assignment = EmptyDict
    /\ scanned_files = {}
    /\ next_assignment = 0
    /\ next_file = 0
    /\ lastCall = NoCall
    /\ pa = PageAssignment("None")
    /\ validated = NotValidated
    /\ batch \in {b \in Batches : validate_batch_assignments(b)}
    /\ processing_options = {"None", "no_cleanup"}
    /\ InitProcessor

SpecOptions == InitOptions /\ [][NextProcessor]_vars

\* ValidationEngine().validate_batch_assignments(batch), called directly
validate_batch ==
    /\ verdict' = [called |-> TRUE] @@ validate_batch_result(batch)
    /\ UNCHANGED <<managerVars, paVars, batch, processing_state, is_processing,
                   should_cancel, current_batch, current_result, calls, tasks,
                   returned, cleanup_temp_files, processing_options,
                   existing_files, hfc, namingVars, extraVars, output, history>>

\* an engine and the batch it is given
InitValidation ==
    /\ assignments = EmptyDict
    /\ page_to_assignment = EmptyDict
    /\ scanned_files = {}
    /\ next_assignment = 0
    /\ next_file = 0
    /\ lastCall = NoCall
    /\ pa = PageAssignment("None")
    /\ validated = NotValidated
    /\ batch \in ValidationBatches
    /\ processing_options = NoOptions
    /\ InitProcessor

SpecValidation == InitValidation /\ [][validate_batch]_vars

(***************************************************************************)
(* _process_single_assignment writing one assignment whose output file     *)
(* exists (document_processor.py:312-366) and _handle_file_conflict        *)
(* (lines 376-396), one step per branch, loop iteration or recursive call. *)
(***************************************************************************)
conflictUnchanged ==
    UNCHANGED <<managerVars, paVars, batch, processing_state, is_processing,
                should_cancel, current_batch, current_result, calls, tasks,
                returned, cleanup_temp_files, processing_options, verdict,
                namingVars, extraVars, output, history>>

\* lines 378-379
hfc_overwrite ==
    /\ hfc.pc = "call" /\ hfc.policy = "OVERWRITE"
    /\ hfc' = [hfc EXCEPT !.pc = "returned"]
    /\ UNCHANGED existing_files
    /\ conflictUnchanged

\* lines 381-383
hfc_auto_rename ==
    /\ hfc.pc = "call" /\ hfc.policy = "AUTO_RENAME"
    /\ hfc' = [hfc EXCEPT !.pc = "while", !.counter = 1]
    /\ UNCHANGED existing_files
    /\ conflictUnchanged

\* lines 384-390: the stem is read from the current output_file
hfc_while ==
    /\ hfc.pc = "while"
    /\ IF hfc.output_file \in existing_files
       THEN hfc' = [hfc EXCEPT
                       !.output_file = Append(hfc.output_file, hfc.counter),
                       !.counter = hfc.counter + 1]
       ELSE hfc' = [hfc EXCEPT !.pc = "returned"]
    /\ UNCHANGED existing_files
    /\ conflictUnchanged

\* lines 392-393
hfc_skip_duplicate ==
    /\ hfc.pc = "call" /\ hfc.policy = "SKIP_DUPLICATE"
    /\ hfc' = [hfc EXCEPT !.pc = "raised", !.error = "AssignmentConflictError"]
    /\ UNCHANGED existing_files
    /\ conflictUnchanged

\* lines 395-396: the method calls itself with the arguments it was given,
\* until the interpreter refuses another frame
hfc_prompt_user ==
    /\ hfc.pc = "call" /\ hfc.policy = "PROMPT_USER"
    /\ IF hfc.depth < RecursionLimit
       THEN hfc' = [hfc EXCEPT !.depth = hfc.depth + 1]
       ELSE hfc' = [hfc EXCEPT !.pc = "raised", !.error = "RecursionError"]
    /\ UNCHANGED existing_files
    /\ conflictUnchanged

\* lines 313-357: the pages are merged into the file the handler returned
psa_write ==
    /\ hfc.pc = "returned"
    /\ existing_files' = existing_files \cup {hfc.output_file}
    /\ hfc' = [hfc EXCEPT !.pc = "written"]
    /\ conflictUnchanged

\* lines 359-366: the exception of the handler gives a failed result
psa_except ==
    /\ hfc.pc = "raised"
    /\ hfc' = [hfc EXCEPT !.pc = "failed"]
    /\ UNCHANGED existing_files
    /\ conflictUnchanged

handle_file_conflict_call ==
    \/ hfc_overwrite
    \/ hfc_auto_rename
    \/ hfc_while
    \/ hfc_skip_duplicate
    \/ hfc_prompt_user
    \/ psa_write
    \/ psa_except

\* output_file exists (line 312) and the processor has one of the policies
\* (line 147, lines 476-477)
InitConflict ==
    /\ assignments = EmptyDict
    /\ page_to_assignment = EmptyDict
    /\ scanned_files = {}
    /\ next_assignment = 0
    /\ next_file = 0
    /\ lastCall = NoCall
    /\ pa = PageAssignment("None")
    /\ validated = NotValidated
    /\ batch = EmptyBatch
    /\ processing_options = NoOptions
    /\ InitRun
    /\ InitNaming
    /\ InitExtra
    /\ existing_files \in {f \in SUBSET FileNames : << >> \in f}
    /\ \E policy \in ConflictResolution :
          hfc = [NoConflict EXCEPT !.pc = "call", !.policy = policy]

SpecConflict == InitConflict /\ [][handle_file_conflict_call]_vars

\* self._check_duplicate_page_assignments(batch.page_assignments)
\* (validation.py:86)
call_check_duplicate_page_assignments ==
    /\ ~duplicate_errors.called
    /\ duplicate_errors' = [called |-> TRUE,
                            errors |-> duplicate_page_errors(checked_assignments)]
    /\ UNCHANGED <<managerVars, paVars, procVarsButExtra, checked_assignments, cnc,
                   psa, moreVars>>

\* the assignments the engine is given: built page by page or restored by
\* PageAssignment.from_dict (assignment.py:330-332), which appends every
\* entry of the data
InitDuplicates ==
    /\ assignments = EmptyDict
    /\ page_to_assignment = EmptyDict
    /\ scanned_files = {}
    /\ next_assignment = 0
    /\ next_file = 0
    /\ lastCall = NoCall
    /\ pa = PageAssignment("None")
    /\ validated = NotValidated
    /\ batch = EmptyBatch
    /\ processing_options = NoOptions
    /\ InitRun
    /\ existing_files = {}
    /\ hfc = NoConflict
    /\ InitNaming
    /\ checked_assignments \in
          UNION {[1..n -> [page_references : RefLists]] : n \in 0..MaxBatch}
    /\ duplicate_errors = NoDuplicateCheck
    /\ cnc = NoNamingCheck
    /\ psa = NoSteps
    /\ InitMore

SpecDuplicates == InitDuplicates /\ [][call_check_duplicate_page_assignments]_vars

(***************************************************************************)
(* _process_single_assignment (document_processor.py:296-366), one step    *)
(* per statement that can raise or that writes, in the loop of the worker  *)
(* (lines 237-256).                                                        *)
(***************************************************************************)
\* the statements in the order of the source: line 304, lines 312-313,
\* lines 316-326, lines 329-332, lines 335-337, lines 340-341 and
\* lines 347-357
StepOrder ==
    <<"preview", "conflict", "references", "merge", "metadata", "timestamp",
      "record">>

\* the tests of lines 312, 335 and 340
Applies(step) ==
    CASE step = "conflict" -> psa.dest_exists
      [] step = "metadata" -> psa.has_values
      [] step = "timestamp" -> psa.preserve_timestamps
      [] OTHER -> TRUE

\* how a step can end: generate_document_preview raises without schema
\* (assignment.py:266-267), the conflict is resolved as the policy says, a
\* source file is found or not (lines 320-323), the merge succeeds or not
\* (lines 329-332), add_metadata writes or raises PDFProcessingError
\* (pdf_utils.py:278-327); _set_file_timestamp (lines 416-423) catches its
\* exceptions
Outcomes(step) ==
    CASE step \in {"preview", "references", "merge", "metadata"} -> BOOLEAN
      [] step = "conflict" -> {handle_file_conflict(psa.policy) = "write"}
      [] OTHER -> {TRUE}

\* an assignment that goes on after a statement raised
Raise_ignored(step) == "step"

\* a raise inside the try block of lines 300-357 leaves it for the handler
\* of lines 359-366
Raise(step) == "except"

stepsUnchanged ==
    UNCHANGED <<managerVars, paVars, procVarsButExtra, checked_assignments,
                duplicate_errors, cnc, moreVars>>

\* the next statement of the try block
psa_step ==
    /\ psa.pc = "step"
    /\ LET step == StepOrder[psa.next]
       IN  IF ~Applies(step)
           THEN psa' = [psa EXCEPT !.next = @ + 1]
           ELSE \E ok \in Outcomes(step) :
                  IF ~ok
                  THEN psa' = [psa EXCEPT !.steps = Append(@, step),
                                          !.failed_step = step,
                                          !.pc = Raise(step),
                                          !.next = @ + 1]
                  ELSE IF step = "record"
                  THEN psa' = [psa EXCEPT
                                  !.steps = Append(@, step),
                                  !.results = Append(@, ProcessingResult(psa.i, TRUE)),
                                  !.pc = "recorded"]
                  ELSE psa' = [psa EXCEPT !.steps = Append(@, step),
                                          !.next = @ + 1]
    /\ stepsUnchanged

\* lines 359-366: the failed result
psa_handler ==
    /\ psa.pc = "except"
    /\ psa' = [psa EXCEPT !.results = Append(@, ProcessingResult(psa.i, FALSE)),
                          !.pc = "recorded"]
    /\ stepsUnchanged

\* lines 237-243: the loop of the worker goes to the next assignment
psa_next ==
    /\ psa.pc = "recorded"
    /\ IF psa.i < psa.n
       THEN \E dest_exists \in BOOLEAN, has_values \in BOOLEAN :
              psa' = [psa EXCEPT !.i = @ + 1, !.pc = "step", !.next = 1,
                                 !.steps = << >>, !.failed_step = "None",
                                 !.dest_exists = dest_exists,
                                 !.has_values = has_values]
       ELSE psa' = [psa EXCEPT !.pc = "done"]
    /\ stepsUnchanged

NextSteps == psa_step \/ psa_handler \/ psa_next

\* the worker enters its loop with the first of n assignments
InitSteps ==
    /\ assignments = EmptyDict
    /\ page_to_assignment = EmptyDict
    /\ scanned_files = {}
    /\ next_assignment = 0
    /\ next_file = 0
    /\ lastCall = NoCall
    /\ pa = PageAssignment("None")
    /\ validated = NotValidated
    /\ batch = EmptyBatch
    /\ processing_options = NoOptions
    /\ InitRun
    /\ existing_files = {}
    /\ hfc = NoConflict
    /\ InitNaming
    /\ checked_assignments = << >>
    /\ duplicate_errors = NoDuplicateCheck
    /\ cnc = NoNamingCheck
    /\ InitMore
    /\ \E n \in 1..MaxBatch, policy \in ConflictResolution,
          dest_exists \in BOOLEAN, has_values \in BOOLEAN,
          preserve_timestamps \in BOOLEAN :
          psa = [NoSteps EXCEPT !.pc = "step", !.n = n, !.i = 1,
                                !.policy = policy, !.dest_exists = dest_exists,
                                !.has_values = has_values,
                                !.preserve_timestamps = preserve_timestamps]

SpecSteps == InitSteps /\ [][NextSteps]_vars

(***************************************************************************)
(* The generators of the schema evaluated twice on the same inputs, and    *)
(* the assignments of a manager with values and previews.                  *)
(***************************************************************************)
namingUnchanged ==
    UNCHANGED <<managerVars, paVars, batch, processing_state, is_processing,
                should_cancel, current_batch, current_result, calls, tasks,
                returned, cleanup_temp_files, processing_options, verdict,
                existing_files, hfc, extraVars, output, history>>

\* a second passes
tick ==
    /\ now < MaxClock
    /\ now' = now + 1
    /\ reported' = NoReport
    /\ UNCHANGED <<filename_template, evaluated, named>>
    /\ namingUnchanged

\* schema.generate_folder_structure(values) and
\* schema.generate_filename(values, timestamp, sequential)
generate(values, timestamp, sequential) ==
    get_full_path(generate_folder_structure(values),
                  generate_filename_at(filename_template, values, timestamp,
                                       sequential, now))

\* the first evaluation
evaluate ==
    /\ evaluated.calls = 0
    /\ \E values \in IndexValues, timestamp \in Times \cup {NoneTime},
          sequential \in {NoneSequential, 1, 2} :
          evaluated' = [evaluated EXCEPT
                            !.calls = 1, !.values = values,
                            !.timestamp = timestamp, !.sequential = sequential,
                            !.first = generate(values, timestamp, sequential)]
    /\ UNCHANGED <<now, filename_template, named, reported>>
    /\ namingUnchanged

\* the second evaluation, on the inputs of the first
evaluate_again ==
    /\ evaluated.calls = 1
    /\ evaluated' = [evaluated EXCEPT
                        !.calls = 2,
                        !.second = generate(evaluated.values, evaluated.timestamp,
                                            evaluated.sequential)]
    /\ UNCHANGED <<now, filename_template, named, reported>>
    /\ namingUnchanged

NextSchema == tick \/ evaluate \/ evaluate_again

InitSchema ==
    /\ assignments = EmptyDict
    /\ page_to_assignment = EmptyDict
    /\ scanned_files = {}
    /\ next_assignment = 0
    /\ next_file = 0
    /\ lastCall = NoCall
    /\ pa = PageAssignment("None")
    /\ validated = NotValidated
    /\ batch = EmptyBatch
    /\ processing_options = NoOptions
    /\ InitRun
    /\ existing_files = {}
    /\ hfc = NoConflict
    /\ now = 0
    /\ filename_template \in Templates
    /\ evaluated = NoEvaluation
    /\ named = << >>
    /\ reported = NoReport
    /\ InitExtra

SpecSchema == InitSchema /\ [][NextSchema]_vars

\* AssignmentManager.add_assignment (assignment.py:385-388) of an assignment
\* created now, with a category, a title and one page
add_named ==
    /\ Len(named) < MaxNamed
    /\ \E title \in TitleValues, page \in 1..(Len(named) + 1) :
          named' = Append(named,
                          [index_values |-> [Category |-> "c", Title |-> title],
                           page |-> page,
                           created_timestamp |-> now,
                           document_preview |-> << >>])
    /\ reported' = NoReport
    /\ UNCHANGED <<now, filename_template, evaluated>>
    /\ namingUnchanged

\* assignment.generate_document_preview() (assignment.py:264-285)
preview_named ==
    /\ \E i \in DOMAIN named :
          /\ named[i].document_preview = << >>
          /\ named' = [named EXCEPT ![i].document_preview =
                                        <<preview_path(filename_template, named[i])>>]
    /\ reported' = NoReport
    /\ UNCHANGED <<now, filename_template, evaluated>>
    /\ namingUnchanged

\* manager.get_filename_conflicts() (assignment.py:437-457)
call_get_filename_conflicts ==
    /\ reported.op = "none"
    /\ reported' = [op |-> "get_filename_conflicts",
                    conflicts |-> get_filename_conflicts(named),
                    is_valid |-> FALSE]
    /\ UNCHANGED <<now, filename_template, evaluated, named>>
    /\ namingUnchanged

\* batch.validate_assignments() (batch.py:293-358)
call_validate_assignments ==
    /\ reported.op = "none"
    /\ named' = validate_all_assignments(filename_template, named)
    /\ reported' = [op |-> "validate_assignments",
                    conflicts |-> get_filename_conflicts(named'),
                    is_valid |-> validate_assignments_is_valid(filename_template, named)]
    /\ UNCHANGED <<now, filename_template, evaluated>>
    /\ namingUnchanged

NextNaming ==
    \/ tick
    \/ add_named
    \/ preview_named
    \/ call_get_filename_conflicts
    \/ call_validate_assignments

SpecNaming == InitSchema /\ [][NextNaming]_vars

\* batch.validate_assignments() and
\* ValidationEngine().validate_batch_assignments(batch) on the same
\* DocumentBatch: the engine reads batch.page_assignments
\* (validation.py:59), which no DocumentBatch has (batch.py:30-54)
validate_both ==
    /\ reported.op = "none"
    /\ named' = validate_all_assignments(filename_template, named)
    /\ reported' = [op |-> "validate_assignments",
                    conflicts |-> get_filename_conflicts(named'),
                    is_valid |-> validate_assignments_is_valid(filename_template, named)]
    /\ verdict' = [called |-> TRUE] @@ validate_batch_result(EmptyBatch)
    /\ UNCHANGED <<managerVars, paVars, batch, processing_state, is_processing,
                   should_cancel, current_batch, current_result, calls, tasks,
                   returned, cleanup_temp_files, processing_options,
                   existing_files, hfc, extraVars, output, history,
                   now, filename_template, evaluated>>

NextVerdicts == tick \/ add_named \/ validate_both

SpecVerdicts == InitSchema /\ [][NextVerdicts]_vars

(***************************************************************************)
(* ValidationEngine.check_naming_conflicts (validation.py:134-184) on the  *)
(* named assignments, one step per assignment of its loop; the clock goes  *)
(* on while the loop runs.  The values hold no upper-case letter, so the   *)
(* lower-casing of line 156 changes nothing.                               *)
(***************************************************************************)
cncUnchanged ==
    UNCHANGED <<managerVars, paVars, procVarsButExtra, checked_assignments,
                duplicate_errors, psa, moreVars>>

\* lines 145-146
cnc_start ==
    /\ cnc.pc = "none"
    /\ cnc' = [NoNamingCheck EXCEPT !.pc = "loop"]
    /\ cncUnchanged

\* lines 148-161 for the next assignment: generate_filename is called
\* without timestamp and sequential (line 152)
cnc_assignment ==
    /\ cnc.pc = "loop"
    /\ Len(cnc.paths) < Len(named)
    /\ LET a == named[Len(cnc.paths) + 1]
           full_path ==
               get_full_path(generate_folder_structure(a.index_values),
                             generate_filename_at(filename_template, a.index_values,
                                                  NoneTime, NoneSequential, now))
       IN  cnc' = [cnc EXCEPT !.paths = Append(@, full_path)]
    /\ cncUnchanged

\* lines 170-179: every path with more than one assignment is reported
\* with its assignments
cnc_report ==
    /\ cnc.pc = "loop"
    /\ Len(cnc.paths) = Len(named)
    /\ cnc' = [cnc EXCEPT
            !.pc = "returned",
            !.conflicts =
                {g \in {{j \in DOMAIN cnc.paths : cnc.paths[j] = cnc.paths[i]} :
                            i \in DOMAIN cnc.paths} : Cardinality(g) > 1}]
    /\ cncUnchanged

\* the assignments are added before the engine is called
add_named_before_check ==
    /\ cnc.pc = "none"
    /\ add_named

NextEngineNaming ==
    \/ tick
    \/ add_named_before_check
    \/ cnc_start
    \/ cnc_assignment
    \/ cnc_report

SpecEngineNaming == InitSchema /\ [][NextEngineNaming]_vars


Init ==
    /\ assignments = EmptyDict
    /\ page_to_assignment = EmptyDict
    /\ scanned_files = {}
    /\ next_assignment = 0
    /\ next_file = 0
    /\ lastCall = NoCall
    /\ pa = PageAssignment("None")
    /\ validated = NotValidated
    /\ batch = EmptyBatch
    /\ processing_options = NoOptions
    /\ InitProcessor

\* AssignmentManager.add_assignment (assignment.py:385-388) of a new
\* PageAssignment, as IndexPanel._apply_assignment calls it
\* (index_panel.py:526-539)
add_assignment ==
    /\ next_assignment < MaxAssignments
    /\ \E refs \in RefLists :
        LET id == next_assignment + 1
            assignment == NewAssignment(refs)
        IN  /\ assignments' = DictSet(assignments, id, assignment)
            /\ page_to_assignment' =
                   update_page_mapping(page_to_assignment,
                                       assignment.page_references, id)
            /\ next_assignment' = id
            /\ lastCall' = NoCall
    /\ UNCHANGED <<scanned_files, next_file, paVars, procVars>>

\* the effect of AssignmentManager.remove_assignment (assignment.py:390-401)
RemoveAssignmentIndex(assignment_id) ==
    pop_page_mapping(page_to_assignment,
                     assignments[assignment_id].page_references)

remove_assignment ==
    /\ \E assignment_id \in DOMAIN assignments :
        /\ page_to_assignment' = RemoveAssignmentIndex(assignment_id)
        /\ assignments' = DictPop(assignments, assignment_id)
    /\ lastCall' = NoCall
    /\ UNCHANGED <<scanned_files, next_assignment, next_file, paVars, procVars>>

\* AssignmentManager.clear (assignment.py:478-481)
clear ==
    /\ assignments' = EmptyDict
    /\ page_to_assignment' = EmptyDict
    /\ lastCall' = NoCall
    /\ UNCHANGED <<scanned_files, next_assignment, next_file, paVars, procVars>>

(***************************************************************************)
(* DocumentBatch (batch.py).                                               *)
(***************************************************************************)
\* add_scanned_file (batch.py:80-112): a new ScannedFile has a new uuid
add_scanned_file ==
    /\ next_file < MaxFiles
    /\ next_file' = next_file + 1
    /\ scanned_files' = scanned_files \cup {next_file + 1}
    /\ lastCall' = NoCall
    /\ UNCHANGED <<assignments, page_to_assignment, next_assignment, paVars, procVars>>

\* assign_pages_to_index (batch.py:205-240)
assign_pages_to_index ==
    \E refs \in RefLists :
        LET conflicts == check_page_conflicts(refs)
        IN  IF conflicts # << >>
            THEN \* raise AssignmentConflictError
                 /\ lastCall' = [op |-> "assign_pages_to_index",
                                 refs |-> refs, raised |-> TRUE]
                 /\ UNCHANGED <<assignments, page_to_assignment, scanned_files,
                                next_assignment, next_file, paVars, procVars>>
            ELSE /\ next_assignment < MaxAssignments
                 /\ LET id == next_assignment + 1
                        assignment == NewAssignment(refs)
                    IN  /\ assignments' = DictSet(assignments, id, assignment)
                        /\ page_to_assignment' =
                               update_page_mapping(page_to_assignment,
                                   assignment.page_references, id)
                        /\ next_assignment' = id
                 /\ lastCall' = [op |-> "assign_pages_to_index",
                                 refs |-> refs, raised |-> FALSE]
                 /\ UNCHANGED <<scanned_files, next_file, paVars, procVars>>

\* DocumentBatch.remove_assignment (batch.py:242-256)
batch_remove_assignment ==
    /\ \E assignment_id \in DOMAIN assignments :
        /\ page_to_assignment' = RemoveAssignmentIndex(assignment_id)
        /\ assignments' = DictPop(assignments, assignment_id)
    /\ lastCall' = NoCall
    /\ UNCHANGED <<scanned_files, next_assignment, next_file, paVars, procVars>>

\* DocumentBatch.clear_assignments (batch.py:258-263)
clear_assignments ==
    /\ assignments' = EmptyDict
    /\ page_to_assignment' = EmptyDict
    /\ lastCall' = NoCall
    /\ UNCHANGED <<scanned_files, next_assignment, next_file, paVars, procVars>>

\* remove_file (batch.py:135-174): the pages of the file are taken out of
\* every assignment; an assignment left without pages is removed from the
\* manager, whose loop over its (now empty) pages pops nothing
RemoveFileAssignments(file_id) ==
    LET stripped(a) ==
            remove_pages(assignments[a].page_references,
                get_pages_from_file(assignments[a].page_references, file_id))
        touched == {a \in DOMAIN assignments :
            get_pages_from_file(assignments[a].page_references, file_id) # << >>}
        kept == {a \in DOMAIN assignments :
                    a \notin touched \/ stripped(a) # << >>}
    IN  [a \in kept |-> [assignments[a] EXCEPT !.page_references = stripped(a)]]

RemoveFileIndex(file_id) == page_to_assignment

remove_file ==
    /\ \E file_id \in scanned_files :
        /\ assignments' = RemoveFileAssignments(file_id)
        /\ page_to_assignment' = RemoveFileIndex(file_id)
        /\ scanned_files' = scanned_files \ {file_id}
    /\ lastCall' = NoCall
    /\ UNCHANGED <<next_assignment, next_file, paVars, procVars>>

(***************************************************************************)
(* Operations on one PageAssignment.                                       *)
(***************************************************************************)
\* PageAssignment(schema=...) (assignment.py:126-144)
pa_new ==
    /\ \E schema \in {"None", "Schema"} : pa' = PageAssignment(schema)
    /\ validated' = NotValidated
    /\ UNCHANGED <<managerVars, procVars>>

\* PageAssignment.from_dict (assignment.py:324-349): pages, values and
\* is_valid are taken from the data as they are
from_dict ==
    /\ \E refs \in RefLists, is_valid \in BOOLEAN, schema \in {"None", "Schema"},
          values \in [FieldNames -> Values] :
        pa' = [PageAssignment(schema) EXCEPT !.page_references = refs,
                                             !.index_values = values,
                                             !.is_valid = is_valid]
    /\ validated' = NotValidated
    /\ UNCHANGED <<managerVars, procVars>>

\* PageAssignment.add_page (assignment.py:146-151)
add_page ==
    /\ \E ref \in PageReference :
        pa' = IF ref \in Range(pa.page_references) THEN pa
              ELSE invalidate_preview(
                     [pa EXCEPT !.page_references = Append(@, ref)])
    /\ validated' = NotValidated
    /\ UNCHANGED <<managerVars, procVars>>

\* PageAssignment.remove_page (assignment.py:163-171)
remove_page ==
    /\ \E ref \in PageReference :
        pa' = IF ref \in Range(pa.page_references)
              THEN invalidate_preview(
                     [pa EXCEPT !.page_references = ListRemove(@, ref)])
              ELSE pa
    /\ validated' = NotValidated
    /\ UNCHANGED <<managerVars, procVars>>

\* PageAssignment.set_index_value (assignment.py:186-190)
set_index_value ==
    /\ \E field_name \in FieldNames, value \in Values :
        pa' = invalidate_preview(
                [pa EXCEPT !.index_values[field_name] = value])
    /\ validated' = NotValidated
    /\ UNCHANGED <<managerVars, procVars>>

\* the assignment of DocumentBatch.set_schema (batch.py:287-288)
set_schema ==
    /\ pa' = [pa EXCEPT !.schema = "Schema"]
    /\ validated' = NotValidated
    /\ UNCHANGED <<managerVars, procVars>>

\* PageAssignment.validate_assignment (assignment.py:212-262)
validate_assignment ==
    /\ pa' = validate_assignment_object(pa)
    /\ validated' = validate_assignment_result(pa)
    /\ UNCHANGED <<managerVars, procVars>>

NextAssignment ==
    \/ pa_new
    \/ from_dict
    \/ add_page
    \/ remove_page
    \/ set_index_value
    \/ set_schema
    \/ validate_assignment

\* one PageAssignment
SpecAssignment == Init /\ [][NextAssignment]_vars

NextManager == add_assignment \/ remove_assignment \/ clear

Next ==
    \/ add_assignment
    \/ remove_assignment
    \/ clear
    \/ add_scanned_file
    \/ assign_pages_to_index
    \/ batch_remove_assignment
    \/ clear_assignments
    \/ remove_file

\* AssignmentManager alone
SpecManager == Init /\ [][NextManager]_vars

\* DocumentBatch with its AssignmentManager
Spec == Init /\ [][Next]_vars

(***************************************************************************)
(* AssignmentManager.add_assignment and remove_assignment                  *)
(* (assignment.py:385-401) statement by statement, and a thread that reads *)
(* the manager meanwhile: the class has no lock (assignment.py:381-383).   *)
(***************************************************************************)
\* an assignment is in the map while one of its pages is not a key of the
\* page index, or a key of the page index names an assignment that is not
\* in the map
Torn ==
    \/ \E a \in DOMAIN assignments :
          \E ref \in Range(assignments[a].page_references) :
              page_id(ref) \notin DOMAIN page_to_assignment
    \/ \E p \in DOMAIN page_to_assignment :
          page_to_assignment[p] \notin DOMAIN assignments

atomicUnchanged ==
    UNCHANGED <<scanned_files, next_file, lastCall, paVars, baseVars, stamp,
                schema_fields, thumbs, generator, monitor, settings>>

\* line 387: the assignment enters the map; its pages are new
add_assignment_map ==
    /\ mgr.pc = "idle"
    /\ next_assignment < MaxAssignments
    /\ \E refs \in RefLists :
        /\ \A ref \in Range(refs) : \A a \in DOMAIN assignments :
              ref \notin Range(assignments[a].page_references)
        /\ assignments' = DictSet(assignments, next_assignment + 1,
                                  NewAssignment(refs))
    /\ next_assignment' = next_assignment + 1
    /\ mgr' = [mgr EXCEPT !.pc = "add_index", !.id = next_assignment + 1]
    /\ UNCHANGED page_to_assignment
    /\ atomicUnchanged

\* line 388: _update_page_mapping
add_assignment_index ==
    /\ mgr.pc = "add_index"
    /\ page_to_assignment' =
            update_page_mapping(page_to_assignment,
                                assignments[mgr.id].page_references, mgr.id)
    /\ mgr' = [mgr EXCEPT !.pc = "idle", !.id = 0]
    /\ UNCHANGED <<assignments, next_assignment>>
    /\ atomicUnchanged

\* lines 392-397: the pages of the assignment leave the page index
remove_assignment_index ==
    /\ mgr.pc = "idle"
    /\ \E assignment_id \in DOMAIN assignments :
        /\ page_to_assignment' = RemoveAssignmentIndex(assignment_id)
        /\ mgr' = [mgr EXCEPT !.pc = "remove_map", !.id = assignment_id]
    /\ UNCHANGED <<assignments, next_assignment>>
    /\ atomicUnchanged

\* line 399: the assignment leaves the map
remove_assignment_map ==
    /\ mgr.pc = "remove_map"
    /\ assignments' = DictPop(assignments, mgr.id)
    /\ mgr' = [mgr EXCEPT !.pc = "idle", !.id = 0]
    /\ UNCHANGED <<page_to_assignment, next_assignment>>
    /\ atomicUnchanged

\* another thread reads the map and the page index: the snapshot of the
\* worker (document_processor.py:235) with check_page_conflicts or
\* get_unassigned_pages (assignment.py:412-422); nothing makes it wait
reader ==
    /\ mgr' = [mgr EXCEPT !.read = TRUE, !.torn = Torn]
    /\ UNCHANGED <<assignments, page_to_assignment, next_assignment>>
    /\ atomicUnchanged

NextAtomic ==
    \/ add_assignment_map
    \/ add_assignment_index
    \/ remove_assignment_index
    \/ remove_assignment_map
    \/ reader

SpecAtomic == Init /\ [][NextAtomic]_vars

(***************************************************************************)
(* The mutators of one PageAssignment (assignment.py:146-190) with its     *)
(* modified_timestamp, generate_document_preview and validate_assignment,  *)
(* and DocumentBatch.set_schema with one of two schemas: "Schema", and     *)
(* "Other", whose Category is a FILENAME field and whose Title is a FOLDER *)
(* field.                                                                  *)
(***************************************************************************)
\* the values the callers give: absent or valid
MutatorValues == {"", "ok"}

\* the pages the callers give: the first page of two files, one at a time
\* or in a list
MutatorPages == {ref \in PageReference : ref.file_id <= 2 /\ ref.page_number = 1}

MutatorPageLists == UNION {[1..n -> MutatorPages] : n \in 0..2}

Mutators ==
    {"add_page", "add_pages", "remove_page", "clear_pages", "set_index_value",
     "update_index_values"}

\* what generate_document_preview (assignment.py:264-285) computes with the
\* schema of the assignment
preview_under(a) ==
    IF a.schema = "Other"
    THEN [filename |-> generate_folder_structure(a.index_values),
          folder_path |-> generate_filename(a.index_values),
          page_references |-> a.page_references]
    ELSE generate_document_preview(a)

\* the method called, whether it assigns modified_timestamp, and whether
\* the pages or the values differ after it
Stamped(method, assigns, after) ==
    [modified_timestamp |-> IF assigns THEN now ELSE stamp.modified_timestamp,
     last |-> method, at |-> now,
     changed |-> \/ after.page_references # pa.page_references
                 \/ after.index_values # pa.index_values,
     before |-> stamp.modified_timestamp,
     was_valid |-> pa.is_valid /\ pa.document_preview # << >>]

mutatorsUnchanged ==
    UNCHANGED <<managerVars, validated, baseVars, mgr, schema_fields, thumbs,
                generator, monitor, settings>>

\* add_page (assignment.py:146-151)
m_add_page ==
    /\ \E ref \in MutatorPages :
        LET added == ref \notin Range(pa.page_references)
            after == IF added
                     THEN invalidate_preview(
                            [pa EXCEPT !.page_references = Append(@, ref)])
                     ELSE pa
        IN  /\ pa' = after
            /\ stamp' = Stamped("add_page", added, after)
    /\ mutatorsUnchanged

\* add_pages (assignment.py:153-161): the test of line 159 is on the
\* argument
m_add_pages ==
    /\ \E refs \in MutatorPageLists :
        LET after == IF refs # << >>
                     THEN invalidate_preview(
                            [pa EXCEPT !.page_references = add_pages(@, refs)])
                     ELSE pa
        IN  /\ pa' = after
            /\ stamp' = Stamped("add_pages", refs # << >>, after)
    /\ mutatorsUnchanged

\* remove_page (assignment.py:163-171)
m_remove_page ==
    /\ \E ref \in MutatorPages :
        LET found == ref \in Range(pa.page_references)
            after == IF found
                     THEN invalidate_preview(
                            [pa EXCEPT !.page_references = ListRemove(@, ref)])
                     ELSE pa
        IN  /\ pa' = after
            /\ stamp' = Stamped("remove_page", found, after)
    /\ mutatorsUnchanged

\* clear_pages (assignment.py:173-178)
m_clear_pages ==
    /\ LET any == pa.page_references # << >>
           after == IF any
                    THEN invalidate_preview([pa EXCEPT !.page_references = << >>])
                    ELSE pa
       IN  /\ pa' = after
           /\ stamp' = Stamped("clear_pages", any, after)
    /\ mutatorsUnchanged

\* update_index_values (assignment.py:180-184)
m_update_index_values ==
    /\ \E names \in SUBSET FieldNames, values \in [FieldNames -> MutatorValues] :
        LET after == invalidate_preview(
                        [pa EXCEPT !.index_values =
                            [n \in FieldNames |-> IF n \in names THEN values[n]
                                                  ELSE @[n]]])
        IN  /\ pa' = after
            /\ stamp' = Stamped("update_index_values", TRUE, after)
    /\ mutatorsUnchanged

\* set_index_value (assignment.py:186-190)
m_set_index_value ==
    /\ \E field_name \in FieldNames, value \in MutatorValues :
        LET after == invalidate_preview(
                        [pa EXCEPT !.index_values[field_name] = value])
        IN  /\ pa' = after
            /\ stamp' = Stamped("set_index_value", TRUE, after)
    /\ mutatorsUnchanged

\* generate_document_preview (assignment.py:264-285), which raises without
\* schema
m_generate_document_preview ==
    /\ pa.schema # "None"
    /\ pa' = [pa EXCEPT !.document_preview = <<preview_under(pa)>>]
    /\ stamp' = Stamped("generate_document_preview", FALSE, pa)
    /\ mutatorsUnchanged

\* validate_assignment (assignment.py:212-262) of an assignment with the
\* schema "Schema"
m_validate_assignment ==
    /\ pa.schema = "Schema"
    /\ pa' = validate_assignment_object(pa)
    /\ stamp' = Stamped("validate_assignment", FALSE, pa)
    /\ mutatorsUnchanged

\* the assignment of DocumentBatch.set_schema (batch.py:286-288)
m_set_schema ==
    /\ \E schema \in {"Schema", "Other"} :
        pa' = [pa EXCEPT !.schema = schema]
    /\ stamp' = Stamped("set_schema", FALSE, pa)
    /\ mutatorsUnchanged

NextMutators ==
    \/ tick
    \/ m_add_page
    \/ m_add_pages
    \/ m_remove_page
    \/ m_clear_pages
    \/ m_update_index_values
    \/ m_set_index_value
    \/ m_generate_document_preview
    \/ m_validate_assignment
    \/ m_set_schema

SpecMutators == Init /\ [][NextMutators]_vars

(***************************************************************************)
(* IndexSchema.add_field, remove_field and reorder_fields                  *)
(* (schema.py:271-306) on the list of fields, each field seen by its name. *)
(***************************************************************************)
FieldPool == {"Category", "Title", "Date"}

FieldOrders == UNION {[1..n -> FieldPool] : n \in 0..MaxOrder}

fieldsUnchanged ==
    UNCHANGED <<managerVars, paVars, baseVars, mgr, stamp, thumbs, generator,
                monitor, settings>>

\* add_field (schema.py:271-282)
sf_add_field ==
    /\ \E name \in FieldPool :
        IF name \in Range(schema_fields.fields)
        THEN schema_fields' = [schema_fields EXCEPT !.raised = TRUE]
        ELSE schema_fields' = [fields |-> Append(schema_fields.fields, name),
                               raised |-> FALSE]
    /\ fieldsUnchanged

\* remove_field (schema.py:284-291): the first field of that name
sf_remove_field ==
    /\ \E field_name \in FieldPool :
        schema_fields' = [fields |-> ListRemove(schema_fields.fields, field_name),
                          raised |-> FALSE]
    /\ fieldsUnchanged

\* reorder_fields (schema.py:293-306): the new list holds the field of each
\* name of field_order, in that order (lines 298-300)
sf_reorder_fields ==
    /\ \E field_order \in FieldOrders :
        IF Range(field_order) # Range(schema_fields.fields)
        THEN schema_fields' = [schema_fields EXCEPT !.raised = TRUE]
        ELSE schema_fields' =
                [fields |-> field_order, raised |-> FALSE]
    /\ fieldsUnchanged

NextFields == sf_add_field \/ sf_remove_field \/ sf_reorder_fields

SpecFields == Init /\ [][NextFields]_vars

(***************************************************************************)
(* ThumbnailCache (thumbnail_generator.py:50-283): add_thumbnail with its  *)
(* cleanup, and get_thumbnail_path.  Each access has a later time than the *)
(* one before.                                                             *)
(***************************************************************************)
\* _get_cache_key (lines 191-193) for the first page of a file in one of
\* two sizes
CacheKeys == FileIds \X {"SMALL", "LARGE"}

\* sum(meta['file_size'] for meta in self._cache_index.values())
RECURSIVE total_size(_)
total_size(index) ==
    IF DOMAIN index = {} THEN 0
    ELSE LET k == CHOOSE k \in DOMAIN index : TRUE
         IN  index[k] + total_size(DictPop(index, k))

\* sorted(self._access_times.keys(), key=...) (lines 266-269)
RECURSIVE sorted_keys(_)
sorted_keys(access) ==
    IF DOMAIN access = {} THEN << >>
    ELSE LET k == CHOOSE k \in DOMAIN access :
                    \A l \in DOMAIN access : access[k] <= access[l]
         IN  <<k>> \o sorted_keys(DictPop(access, k))

\* int(self.max_size_bytes * 0.8) (line 271)
target_size == (MaxCacheBytes * 8) \div 10

\* the loop of lines 273-280 over the keys that remain: the cache after it
RECURSIVE evict(_, _)
evict(cache, keys) ==
    IF keys = << >> \/ total_size(cache.index) <= target_size THEN cache
    ELSE LET key == Head(keys)
         IN  IF key \in DOMAIN cache.index
             THEN evict([cache EXCEPT
                            !.index = DictPop(@, key),
                            !.access = DictPop(@, key),
                            !.evicted = Append(@, cache.access[key])],
                        Tail(keys))
             ELSE evict(cache, Tail(keys))

\* _cleanup_if_needed (lines 259-283)
cleanup_if_needed(cache) ==
    IF total_size(cache.index) > MaxCacheBytes
    THEN evict([cache EXCEPT !.evicted = << >>], sorted_keys(cache.access))
    ELSE [cache EXCEPT !.evicted = << >>]

thumbsUnchanged ==
    UNCHANGED <<managerVars, paVars, baseVars, mgr, stamp, schema_fields,
                generator, monitor, settings>>

\* add_thumbnail, line 104: the lock is taken
add_thumbnail_lock ==
    /\ thumbs.pc = "idle"
    /\ thumbs.clock < MaxCounter
    /\ ~thumbs.locked
    /\ thumbs' = [thumbs EXCEPT !.locked = TRUE, !.pc = "index"]
    /\ thumbsUnchanged

\* add_thumbnail, lines 105-114: the entry is written and the with block
\* ends, which releases the lock
add_thumbnail_index ==
    /\ thumbs.pc = "index"
    /\ \E key \in CacheKeys, file_size \in 1..MaxThumbnailBytes :
        thumbs' = [thumbs EXCEPT
                      !.index = DictSet(@, key, file_size),
                      !.access = DictSet(@, key, thumbs.clock + 1),
                      !.clock = @ + 1,
                      !.unlocked = @ \/ ~thumbs.locked,
                      !.locked = FALSE,
                      !.pc = "cleanup"]
    /\ thumbsUnchanged

\* add_thumbnail, lines 116-120: _cleanup_if_needed, which takes no lock
\* itself (lines 259-283), is called after the with block
add_thumbnail_cleanup ==
    /\ thumbs.pc = "cleanup"
    /\ thumbs' = [cleanup_if_needed(thumbs) EXCEPT
                      !.pc = "returned",
                      !.unlocked = @ \/ ~thumbs.locked]
    /\ thumbsUnchanged

\* the caller goes on
add_thumbnail_return ==
    /\ thumbs.pc = "returned"
    /\ thumbs' = [thumbs EXCEPT !.pc = "idle"]
    /\ thumbsUnchanged

\* get_thumbnail_path (lines 71-87) of a cached thumbnail, under the lock
get_thumbnail_path ==
    /\ thumbs.pc = "idle"
    /\ thumbs.clock < MaxCounter
    /\ \E key \in DOMAIN thumbs.index :
        thumbs' = [thumbs EXCEPT !.access = DictSet(@, key, thumbs.clock + 1),
                                 !.clock = @ + 1]
    /\ thumbsUnchanged

NextThumbnails ==
    \/ add_thumbnail_lock
    \/ add_thumbnail_index
    \/ add_thumbnail_cleanup
    \/ add_thumbnail_return
    \/ get_thumbnail_path

SpecThumbnails == Init /\ [][NextThumbnails]_vars

(***************************************************************************)
(* ThumbnailGenerator.generate_thumbnail (thumbnail_generator.py:318-364)  *)
(* called by one thread for the first page of a file whose thumbnail is    *)
(* not cached, and _generate_thumbnail_task (lines 389-443) in the pool.   *)
(***************************************************************************)
generatorUnchanged ==
    UNCHANGED <<managerVars, paVars, baseVars, mgr, stamp, schema_fields,
                thumbs, monitor, settings>>

\* lines 341-347, under tasks_lock: a task that is tracked is rejected
gt_check ==
    /\ generator.pc = "idle"
    /\ generator.calls < MaxCounter
    /\ \E task_id \in FileIds :
        IF task_id \in generator.pending_tasks \cup generator.active_futures
        THEN generator' = [generator EXCEPT
                !.calls = @ + 1,
                !.rejected_finished = @ \/ generator.pool[task_id] = "done"]
        ELSE generator' = [generator EXCEPT
                !.calls = @ + 1,
                !.pending_tasks = @ \cup {task_id},
                !.task_id = task_id,
                !.pc = "submit"]
    /\ generatorUnchanged

\* line 350: the task is given to the pool
gt_submit ==
    /\ generator.pc = "submit"
    /\ generator' = [generator EXCEPT !.pool[generator.task_id] = "running",
                                      !.pc = "register"]
    /\ generatorUnchanged

\* lines 352-354, under tasks_lock: the future is registered
gt_register ==
    /\ generator.pc = "register"
    /\ generator' = [generator EXCEPT
            !.active_futures = @ \cup {generator.task_id},
            !.pending_tasks = @ \ {generator.task_id},
            !.task_id = 0,
            !.pc = "idle"]
    /\ generatorUnchanged

\* lines 391-436: the thumbnail is generated, or not
task_body ==
    /\ \E t \in FileIds :
        /\ generator.pool[t] = "running"
        /\ generator' = [generator EXCEPT !.pool[t] = "finally"]
    /\ generatorUnchanged

\* lines 438-441, under tasks_lock: active_futures.pop(task_id, None)
task_finally ==
    /\ \E t \in FileIds :
        /\ generator.pool[t] = "finally"
        /\ generator' = [generator EXCEPT !.pool[t] = "done",
                                          !.active_futures = @ \ {t}]
    /\ generatorUnchanged

NextGenerator ==
    gt_check \/ gt_submit \/ gt_register \/ task_body \/ task_finally

SpecGenerator == Init /\ [][NextGenerator]_vars

(***************************************************************************)
(* FileMonitor (file_monitor.py).  Its handlers run on the thread of the   *)
(* event loop, one at a time.  The files of the model are scanned PDF      *)
(* files that _should_process_file accepts; the scanner and the user put   *)
(* them in the watched directory and take them out.                        *)
(***************************************************************************)
monitorUnchanged ==
    UNCHANGED <<managerVars, paVars, baseVars, mgr, stamp, schema_fields,
                thumbs, generator, settings>>

\* a file appears in the directory
file_created ==
    /\ \E f \in FileIds \ monitor.directory :
        monitor' = [monitor EXCEPT !.directory = @ \cup {f}]
    /\ monitorUnchanged

\* a file leaves the directory: what is delivered later under its name is
\* another scan
file_deleted ==
    /\ \E f \in monitor.directory :
        monitor' = [monitor EXCEPT !.directory = @ \ {f},
                                   !.emitted = @ \ {f}]
    /\ monitorUnchanged

\* batch_ready.emit(batch), lines 410 and 426
batch_ready(m, batch_files) ==
    [m EXCEPT !.emitted = @ \cup batch_files,
              !.redelivered = @ \cup (batch_files \cap m.emitted)]

\* lines 419-428: the completed and the pending files, nothing is cleared
emit_final_batch(m) ==
    batch_ready(m, m.completed_files \cup m.pending_files)

\* lines 402-411
emit_batch(m) ==
    IF m.completed_files = {} THEN m
    ELSE [batch_ready(m, m.completed_files) EXCEPT
            !.completed_files = {}, !.last_batch_time = "now"]

\* lines 147-174
stopped(m) ==
    LET off == [m EXCEPT !.is_monitoring = FALSE]
    IN IF m.pending_files # {} THEN emit_final_batch(off) ELSE off

\* lines 96-139: a session begins with empty tracking data
start_monitoring ==
    /\ ~monitor.blocked
    /\ LET m == IF monitor.is_monitoring THEN stopped(monitor) ELSE monitor
       IN monitor' = [m EXCEPT !.is_monitoring = TRUE,
                               !.pending_files = {},
                               !.completed_files = {},
                               !.emitted = {}]
    /\ monitorUnchanged

stop_monitoring ==
    /\ ~monitor.blocked
    /\ monitor.is_monitoring
    /\ monitor' = stopped(monitor)
    /\ monitorUnchanged

\* lines 234-251 for the files a scan finds new.  _handle_new_file holds the
\* mutex when it calls _track_file_size, which takes the same mutex for a
\* file that exists (lines 345-348).  QMutex is not part of the repository:
\* a mutex that lets its holder in goes on, one that does not blocks the
\* thread for good after the file was added to pending_files.
handle_new_files(m, new, relock) ==
    [m EXCEPT !.pending_files = @ \cup new,
              !.retracked = @ \cup (new \cap m.emitted),
              !.blocked = (relock = "blocks")]

\* lines 207-232, called by _handle_directory_changed (lines 176-190)
scan_for_new_files ==
    /\ ~monitor.blocked
    /\ monitor.is_monitoring
    /\ LET current_files == monitor.directory
           new == current_files
                    \ (monitor.pending_files \cup monitor.completed_files)
       IN \/ \E first \in SUBSET new :
                /\ first # {}
                /\ monitor' = handle_new_files(monitor, first, "blocks")
          \/ LET m == handle_new_files(monitor, new, "enters")
             IN monitor' = [m EXCEPT
                    !.pending_files = @ \cap current_files]
    /\ monitorUnchanged

\* lines 369-398: which of the three tests asks for a batch
should_emit_batch(m, late) ==
    LET completed_count == Cardinality(m.completed_files)
    IN \/ completed_count >= max_batch_size
       \/ completed_count > 0 /\ m.last_batch_time # "None" /\ late
       \/ completed_count > 0 /\ m.pending_files = {}

\* lines 253-297, the slot of scan_timer: pending files that are gone are
\* dropped, those the size test or the timeout finds finished are marked
\* complete (lines 354-367), then _check_batch_ready
check_pending_files ==
    /\ ~monitor.blocked
    /\ monitor.is_monitoring
    /\ \E finished \in SUBSET (monitor.pending_files \cap monitor.directory),
          late \in BOOLEAN :
        LET m == [monitor EXCEPT
                    !.pending_files = (@ \cap monitor.directory) \ finished,
                    !.completed_files = @ \cup finished]
        IN monitor' = IF should_emit_batch(m, late) THEN emit_batch(m) ELSE m
    /\ monitorUnchanged

\* lines 433-461, the slot of cleanup_timer: pending entries older than an
\* hour are dropped
cleanup_old_entries ==
    /\ ~monitor.blocked
    /\ monitor.is_monitoring
    /\ \E expired_files \in SUBSET monitor.pending_files :
        /\ expired_files # {}
        /\ monitor' = [monitor EXCEPT !.pending_files = @ \ expired_files]
    /\ monitorUnchanged

NextMonitor ==
    \/ file_created
    \/ file_deleted
    \/ start_monitoring
    \/ stop_monitoring
    \/ scan_for_new_files
    \/ check_pending_files
    \/ cleanup_old_entries

SpecMonitor == Init /\ [][NextMonitor]_vars

(***************************************************************************)
(* ConfigurationManager (utils/config.py).  A dict of the program is an    *)
(* object: default_settings[section] and own[section] are the contents of  *)
(* the two dict objects a section of current_settings can refer to.        *)
(***************************************************************************)
settingsUnchanged ==
    UNCHANGED <<managerVars, paVars, baseVars, mgr, stamp, schema_fields,
                thumbs, generator, monitor>>

SettingValues(k) ==
    CASE k = "default_thumbnail_size" -> {"150", "0"}
      [] k = "show_page_numbers" -> {"true", "false"}
      [] k = "default_quality" -> {"medium", "high"}
      [] k = "compress_output" -> {"false", "true"}

SettingTokens ==
    UNION {SettingValues(k) : k \in UNION {SettingKeys(s) : s \in SettingSections}}

\* the dicts a configuration file can hold for a section
SectionDicts(section) ==
    {d \in [SettingKeys(section) -> SettingTokens \cup {"absent"}] :
        \A k \in SettingKeys(section) :
            d[k] \in SettingValues(k) \cup {"absent"}}

\* the contents json.load can return (line 130): some sections, each with
\* some keys
LoadedConfigs ==
    {c \in [SettingSections -> UNION {SectionDicts(s) : s \in SettingSections}
                                  \cup {<<"absent">>}] :
        \A s \in SettingSections : c[s] \in SectionDicts(s) \cup {<<"absent">>}}

\* the dict a section of current_settings refers to
section_dict(st, section) ==
    IF st.current_settings[section] = "default_settings"
    THEN st.default_settings[section]
    ELSE st.own[section]

\* lines 194-218, for a key path section.key
get_setting(st, section, k) ==
    IF st.current_settings[section] = "absent" THEN "absent"
    ELSE section_dict(st, section)[k]

\* self.default_settings.copy(), lines 141, 155, 276 and 439: a new outer
\* dict whose sections are the dict objects of default_settings
copy(st) ==
    [st EXCEPT !.current_settings =
        [section \in SettingSections |-> "default_settings"]]

\* lines 445-464: result = defaults.copy(); a section of the file is merged
\* into a copy of the section's default dict, the other sections stay the
\* dict objects of the defaults
merge_settings(st, user_settings) ==
    [st EXCEPT
        !.current_settings =
            [section \in SettingSections |->
                IF user_settings[section] = <<"absent">>
                THEN "default_settings" ELSE "own"],
        !.own =
            [section \in SettingSections |->
                IF user_settings[section] = <<"absent">> THEN @[section]
                ELSE [k \in SettingKeys(section) |->
                        IF user_settings[section][k] # "absent"
                        THEN user_settings[section][k]
                        ELSE st.default_settings[section][k]]]]

\* lines 295-338: of the modelled settings, ui.default_thumbnail_size has
\* a validator (x > 0)
validate_configuration(st) ==
    get_setting(st, "ui", "default_thumbnail_size") # "0"

AllSettingKeys ==
    UNION {{section} \X SettingKeys(section) : section \in SettingSections}

\* the keys of the defaults tree a file lacks
missing_keys(user_settings) ==
    {key \in AllSettingKeys :
        \/ user_settings[key[1]] = <<"absent">>
        \/ user_settings[key[1]][key[2]] = "absent"}

\* lines 117-156 with a file that exists and parses
load_application_config ==
    /\ \E loaded_config \in LoadedConfigs :
        LET merged == merge_settings(settings, loaded_config)
        IN settings' =
            IF validate_configuration(merged)
            THEN [merged EXCEPT !.last = "load",
                                !.missing = missing_keys(loaded_config)]
            ELSE [copy(settings) EXCEPT !.last = "load failed",
                                        !.missing = {}]
    /\ settingsUnchanged

\* lines 139-144 (no file) and 148-151 with 422-443 (a file that json.load
\* rejects): the defaults are taken
load_defaults ==
    /\ \E file \in {"not found", "corrupted"} :
        settings' =
            [copy(settings) EXCEPT
                !.last = IF file = "not found" THEN "load" ELSE "load failed",
                !.missing = IF file = "not found" THEN AllSettingKeys
                            ELSE {}]
    /\ settingsUnchanged

\* lines 220-254 for a key path section.key: the value is stored in the
\* dict object the section refers to
set_setting ==
    /\ \E section \in SettingSections :
        \E k \in SettingKeys(section) :
          \E value \in SettingValues(k) :
            settings' =
              CASE settings.current_settings[section] = "absent" ->
                    [settings EXCEPT
                        !.current_settings[section] = "own",
                        !.own[section] =
                            [j \in SettingKeys(section) |->
                                IF j = k THEN value ELSE "absent"],
                        !.last = "set"]
                [] settings.current_settings[section] = "default_settings" ->
                    [settings EXCEPT
                        !.default_settings[section][k] = value,
                        !.last = "set"]
                [] settings.current_settings[section] = "own" ->
                    [settings EXCEPT
                        !.own[section][k] = value,
                        !.last = "set"]
    /\ settingsUnchanged

\* lines 256-285
reset_to_defaults ==
    /\ settings' = [copy(settings) EXCEPT !.last = "reset", !.missing = {}]
    /\ settingsUnchanged

NextSettings ==
    \/ load_application_config
    \/ load_defaults
    \/ set_setting
    \/ reset_to_defaults

SpecSettings == Init /\ [][NextSettings]_vars

(***************************************************************************)
(* Claims about the page index.                                            *)
(***************************************************************************)
\* C1: a page_id is a key of the page index if and only if some assignment
\* held by the manager contains that page in its page_references.
C1_PageIndexExact == DOMAIN page_to_assignment = HeldPages

\* C2: for every page_id in the page index, exactly one assignment of the
\* manager has that page in its page_references.
C2_ExactlyOneHolder ==
    \A p \in DOMAIN page_to_assignment : Cardinality(Holders(p)) = 1

\* C3: check_page_conflicts(refs) returns exactly those refs whose page is
\* held by some assignment of the manager.
C3_ConflictsExact ==
    \A refs \in RefLists :
        check_page_conflicts(refs) =
            SelectSeq(refs, LAMBDA ref : page_id(ref) \in HeldPages)

\* C4: assign_pages_to_index raises AssignmentConflictError whenever a
\* requested page is already claimed by an existing assignment, and then
\* leaves the assignments and the page index as they were.
C4_AssignRejectsClaimed ==
    [][lastCall'.op = "assign_pages_to_index" =>
        /\ (\E i \in DOMAIN lastCall'.refs :
                page_id(lastCall'.refs[i]) \in HeldPages) => lastCall'.raised
        /\ lastCall'.raised =>
                UNCHANGED <<assignments, page_to_assignment>>]_vars

(***************************************************************************)
(* Claims about PageAssignment.                                            *)
(***************************************************************************)
\* C5: after validate_assignment() the assignment's is_valid is True if
\* and only if the errors of that call are empty.
C5_IsValidIffNoErrors ==
    validated.called => (pa.is_valid <=> validated.errors = << >>)

\* C6: under any interleaving of concurrent process_batch calls at most one
\* run is active at any time, and a call made while a run is active returns
\* False, submits no task and is not queued: it leaves no call in progress
\* and the runs are what they were.
C6_OneRunAtATime ==
    [][/\ Cardinality(Runs') <= 1
       /\ \A c \in Callers :
            (RunActive /\ pb_enter(c)) =>
                /\ returned' = Return("False")
                /\ tasks' = tasks
                /\ calls'[c] = NoCallInProgress
                /\ Runs' = Runs]_vars

\* a call was turned away by the guard while the worker of another call is
\* processing an assignment
C6_Witness ==
    /\ returned = Return("False")
    /\ \E c \in Callers : tasks[c].pc = "process"

\* C7: when the validation engine reports the batch invalid, process_batch
\* aborts before any file I/O: no task is ever submitted, nothing is created
\* in the output directory, and the call that was given the verdict emitted
\* processing_error and returned False.
C7_InvalidBatchAborts ==
    ~validate_batch_assignments(batch) =>
        /\ \A c \in Callers :
            /\ tasks[c] = NoTask
            /\ calls[c].pc \notin {"init", "prepare", "submit"}
        /\ output = NoOutput
        /\ returned.ret # "True"
        /\ ~returned.submitted
        /\ returned.is_valid # "True"
        /\ returned.is_valid = "False" =>
                returned.ret = "False" /\ returned.error_emitted

\* a batch whose list of assignments the engine read and found invalid, and
\* the call that got this verdict has returned
C7_Witness ==
    /\ batch.has_page_assignments
    /\ Len(batch.assignments) >= 1
    /\ ~validate_batch_assignments(batch)
    /\ returned.is_valid = "False"
    /\ \A c \in Callers : calls[c].pc = "idle"

\* C8: for a batch of N assignments that pass validation, exactly one of
\* which holds a page whose source file cannot be found, a call of
\* process_batch that is neither cancelled nor hit by a fault of the
\* environment ends with N results, N-1 of them successful and 1 failed, and
\* the batch in state COMPLETED.
C8_OneUnresolvable ==
    LET N == Len(batch.assignments)
    IN  (/\ N >= 1
         /\ validate_page_assignments(batch.assignments)
         /\ Cardinality({i \in 1..N : ~batch.assignments[i].resolvable}) = 1
         /\ returned.is_valid # "None"
         /\ ~RunActive
         /\ ~is_processing
         /\ ~history.fault
         /\ ~history.cancel_requested)
        => /\ Len(current_result.assignment_results) = N
           /\ current_result.successful_assignments = N - 1
           /\ current_result.failed_assignments = 1
           /\ processing_state = "COMPLETED"

\* C9: when the cancel flag is set after assignment k has started and before
\* assignment k+1 begins, the run ends with the results of assignments 1..k
\* and no others, and the batch in state CANCELLED.
C9_CancelBetweenAssignments ==
    \A c \in Callers :
        (tasks[c].pc \in {"emit", "release"} /\ history.cancel_k >= 1) =>
            /\ [i \in DOMAIN current_result.assignment_results |->
                    current_result.assignment_results[i].assignment_id]
                    = [i \in 1..history.cancel_k |-> i]
            /\ processing_state = "CANCELLED"

\* the flag was set while the first of two assignments was being processed
\* and the worker has written the final state
C9_Witness ==
    \E c \in Callers :
        /\ tasks[c].pc = "release"
        /\ Len(tasks[c].snapshot) = 2
        /\ history.cancel_k = 1

\* C10: processing_state changes only along IDLE -> PREPARING -> PROCESSING
\* -> COMPLETING -> COMPLETED, PROCESSING -> CANCELLED and PROCESSING ->
\* ERROR (a new call of process_batch takes a batch whose run has ended to
\* PREPARING again); in particular never CANCELLED -> PROCESSING nor
\* CANCELLED -> COMPLETED.
C10_StateTransitions ==
    [][processing_state' # processing_state =>
        \/ <<processing_state, processing_state'>> \in
                {<<"IDLE", "PREPARING">>, <<"PREPARING", "PROCESSING">>,
                 <<"PROCESSING", "COMPLETING">>, <<"COMPLETING", "COMPLETED">>,
                 <<"PROCESSING", "CANCELLED">>, <<"PROCESSING", "ERROR">>}
        \/ /\ processing_state \in {"COMPLETED", "CANCELLED", "ERROR"}
           /\ processing_state' = "PREPARING"
           /\ ~RunActive]_vars

\* C11: a call of process_batch on an idle processor, with a batch of at
\* least one assignment whose assignments are all field-valid, have pairwise
\* distinct output paths and pairwise disjoint pages, returns True (the
\* first half of the claim: the run it starts then ends in COMPLETED).
C11_ValidBatchStarts ==
    (/\ Len(batch.assignments) >= 1
     /\ validate_page_assignments(batch.assignments)
     /\ returned.is_valid # "None")
    => returned.ret = "True"

\* C12 as stated: whatever the outcome of a started run (COMPLETED,
\* CANCELLED or ERROR), the cleanup of the temporary working directories is
\* executed on the exit path of the worker: when the worker ends,
\* _cleanup_temp_files has been called.
C12_CleanupAlways ==
    [][\A c \in Callers :
        (tasks[c].pc = "release" /\ tasks'[c].pc = "none")
            => history'.cleaned]_vars

\* C12, amended: whatever the outcome of a started run, the cleanup of the
\* temporary working directories is executed on the exit path of the worker
\* when cleanup_temp_files is set (the default; the processing option
\* cleanup_temp_files=False switches it off).
C12_CleanupWhenEnabled ==
    [][\A c \in Callers :
        (tasks[c].pc = "release" /\ tasks'[c].pc = "none"
            /\ cleanup_temp_files)
            => history'.cleaned]_vars

\* a run that ended in ERROR and whose worker has left after the cleanup
C12_Witness ==
    /\ processing_state = "ERROR"
    /\ history.cleaned
    /\ \A c \in Callers : tasks[c] = NoTask

\* C13: the batch's processing_state becomes ERROR in exactly two cases:
\* when batch-level validation fails in process_batch (first conjunct: once
\* the call that got the verdict "invalid" has returned, the state is
\* ERROR), or when an exception escapes the per-assignment try-block of the
\* worker; an exception raised while processing one assignment never gives
\* ERROR (second conjunct: from the loop on, a worker never sees ERROR).
C13_ErrorCases ==
    /\ (returned.is_valid = "False" /\ ~RunActive)
            => processing_state = "ERROR"
    /\ \A c \in Callers :
            tasks[c].pc \in {"snapshot", "loop", "process", "summary",
                             "read_cancel", "set_state", "emit"}
                => processing_state # "ERROR"

\* C14: validate_batch_assignments never raises past its own boundary: for
\* every batch (one whose assignments lack a schema, whose path generation
\* fails, or that lacks the attribute page_assignments included) it returns
\* a pair (is_valid, errors), and is_valid is False whenever errors is not
\* empty.
C14_ValidationNeverRaises ==
    verdict.called =>
        /\ ~verdict.raised
        /\ verdict.errors # {} => ~verdict.is_valid

\* the engine was called with a batch that lacks page_assignments, or with
\* one that has an assignment without schema
C14_Witness ==
    /\ verdict.called
    /\ \/ ~batch.has_page_assignments
       \/ \E i \in DOMAIN batch.assignments :
            batch.assignments[i].schema = "None"

\* C15: under AUTO_RENAME, when the destination <stem>.pdf exists,
\* _handle_file_conflict returns <stem>_n.pdf for the smallest n >= 1 such
\* that that path does not exist, and the returned path does not exist when
\* it is returned.
C15_AutoRenameSmallest ==
    (hfc.policy = "AUTO_RENAME" /\ hfc.pc = "returned") =>
        /\ \E n \in 1..(MaxCounter + 1) :
              /\ hfc.output_file = <<n>>
              /\ \A k \in 1..(n - 1) : <<k>> \in existing_files
        /\ hfc.output_file \notin existing_files

\* C16: under PROMPT_USER with an existing destination file, conflict
\* resolution terminates and behaves as AUTO_RENAME does: it returns a free
\* renamed path and the assignment is written, without failing the
\* assignment.
C16_PromptUserRenames ==
    hfc.policy = "PROMPT_USER" => hfc.pc \notin {"raised", "failed"}

\* C17: for any fixed (schema, values, timestamp, sequential),
\* generate_folder_structure and generate_filename return the same strings:
\* two evaluations on identical inputs, at any two points in time, give
\* identical results.
C17_GeneratorsDeterministic ==
    evaluated.calls = 2 => evaluated.second = evaluated.first

\* C18: two assignments under the same schema with identical index values
\* and different pages have identical output paths once previewed, and
\* get_filename_conflicts() returns exactly the pair of the two, for every
\* filename template.
C18_SameValuesConflict ==
    (/\ reported.op = "get_filename_conflicts"
     /\ Len(named) = 2
     /\ Previewed(named) = {1, 2}
     /\ named[1].index_values = named[2].index_values
     /\ named[1].page # named[2].page) =>
        /\ named[1].document_preview = named[2].document_preview
        /\ reported.conflicts = {<<1, 2>>}

\* C19: whenever two assignments of a batch produce the same output path, or
\* a page is claimed by more than one assignment,
\* DocumentBatch.validate_assignments() returns is_valid False.
C19_ConflictsBlockExport ==
    (/\ reported.op = "validate_assignments"
     /\ \E i, j \in DOMAIN named :
           /\ i < j
           /\ \/ named[i].document_preview = named[j].document_preview
              \/ named[i].page = named[j].page) =>
        ~reported.is_valid

\* C20: get_filename_conflicts() reports every unordered pair of distinct
\* previewed assignments with the same full output path (k assignments on
\* one path give k(k-1)/2 pairs), no pair whose paths differ, and no
\* assignment without a cached preview.
C20_EveryCollidingPair ==
    reported.op = "get_filename_conflicts" =>
        reported.conflicts =
            {<<i, j>> \in Previewed(named) \X Previewed(named) :
                /\ i < j
                /\ named[i].document_preview = named[j].document_preview}

\* C21: the engine's duplicate-page check reports exactly one
\* duplicate_page_assignment error for each page_id that occurs in the
\* page_references of more than one assignment, listing the assignments
\* that claim it, and none for a page claimed by one assignment.
C21_DuplicatePagesExact ==
    duplicate_errors.called =>
        LET claimants(pid) ==
                {i \in DOMAIN checked_assignments :
                    \E k \in DOMAIN checked_assignments[i].page_references :
                        page_id(checked_assignments[i].page_references[k]) = pid}
        IN  /\ {e.page_id : e \in duplicate_errors.errors}
                = {page_id(r) : r \in {q \in PageReference :
                                          Cardinality(claimants(page_id(q))) > 1}}
            /\ \A e \in duplicate_errors.errors :
                    Range(e.conflicting_assignments) = claimants(e.page_id)
            /\ \A e, f \in duplicate_errors.errors :
                    e.page_id = f.page_id => e = f

\* C22: check_naming_conflicts reports every group of more than one
\* assignment with the same regenerated path as one conflict that names
\* its members, and two assignments that the processor would write to the
\* same output path are always in the same group.
C22_SameOutputSameGroup ==
    cnc.pc = "returned" =>
        /\ \A g \in cnc.conflicts :
              /\ Cardinality(g) > 1
              /\ \A i, j \in g : cnc.paths[i] = cnc.paths[j]
        /\ \A i, j \in DOMAIN named :
              (i # j /\ preview_path(filename_template, named[i])
                          = preview_path(filename_template, named[j]))
                  => \E g \in cnc.conflicts : i \in g /\ j \in g

\* C23: DocumentBatch.validate_assignments() and
\* ValidationEngine.validate_batch_assignments(batch) give the same overall
\* verdict for every DocumentBatch.
C23_SameVerdict ==
    (reported.op = "validate_assignments" /\ verdict.called) =>
        reported.is_valid = verdict.is_valid

\* C24: within one run the worker processes the assignments one after
\* another in the order of its snapshot: result i belongs to assignment i of
\* the snapshot, every assignment of the snapshot gets at most one result,
\* the results are those of the assignments before the one the worker is
\* at, and no two worker tasks run at the same time.
C24_SnapshotOrder ==
    /\ Cardinality(ActiveTasks) <= 1
    /\ \A k \in DOMAIN current_result.assignment_results :
          current_result.assignment_results[k].assignment_id = k
    /\ \A c \in Callers :
          tasks[c].pc \in {"loop", "process"} =>
              /\ Len(current_result.assignment_results) = tasks[c].i - 1
              /\ tasks[c].i - 1 <= Len(tasks[c].snapshot)

\* the worker has recorded the results of both assignments of its snapshot
C24_Witness ==
    \E c \in Callers :
        /\ tasks[c].pc = "loop"
        /\ Len(tasks[c].snapshot) = 2
        /\ Len(current_result.assignment_results) = 2

\* C25: for each assignment the steps occur in the order preview, conflict
\* resolution, page-reference resolution, merge, metadata, timestamp,
\* result; a failure at a step skips all later steps of that assignment,
\* records a failed ProcessingResult and lets the loop go on with the next
\* assignment.
C25_StepsInOrder ==
    /\ \A k, l \in DOMAIN psa.steps :
          k < l => \E x, y \in DOMAIN StepOrder :
                      /\ x < y
                      /\ StepOrder[x] = psa.steps[k]
                      /\ StepOrder[y] = psa.steps[l]
    /\ psa.failed_step # "None" =>
          /\ psa.steps # << >>
          /\ psa.steps[Len(psa.steps)] = psa.failed_step
          /\ psa.pc \in {"except", "recorded", "done"}
    /\ psa.pc \in {"recorded", "done"} =>
          /\ Len(psa.results) = psa.i
          /\ psa.results[psa.i].assignment_id = psa.i
          /\ psa.results[psa.i].success = (psa.failed_step = "None")
          /\ psa.results[psa.i].success =>
                {"preview", "references", "merge", "record"} \subseteq Range(psa.steps)
    /\ psa.pc = "done" => psa.i = psa.n

\* a step of the first assignment raised and the second assignment was
\* processed to its result
C25_Witness ==
    /\ psa.pc = "done"
    /\ psa.n = 2
    /\ ~psa.results[1].success
    /\ psa.results[2].success

\* a call of cancel_processing has written during the run under way
\* (history is cleared at the entry of process_batch) and no call of
\* cancel_processing is still under way: one has returned True
CancelReturned ==
    /\ history.cancel_requested
    /\ \A d \in Callers : calls[d].op # "cancel_processing"

\* C26: cancellation is cooperative and takes effect at the next iteration
\* boundary: once cancel_processing has returned True during a run, no
\* assignment that had not started is processed (the worker at the top of
\* its loop does not start one), so that at most the assignment in flight
\* still gets a result, and the run ends.
C26_CancelAtBoundary ==
    [][\A c \in Callers :
          (CancelReturned /\ tasks[c].pc = "loop") => tasks'[c].pc # "process"]_vars

\* C27: with summary creation enabled, the processing summary is written
\* at the end of the assignment loop both when all assignments were
\* processed and when the loop was left early through the cancel flag:
\* a worker that is past the summary step has written it.
C27_SummaryAlsoOnCancel ==
    \A c \in Callers :
        tasks[c].pc \in {"read_cancel", "set_state", "emit"} => output.summary

\* C28: for every interleaving of the worker's completion phase with
\* cancel_processing, the terminal notification of a run agrees with the
\* final state of the batch: when the worker has emitted and is about to
\* release the processor, and no call of cancel_processing is under way,
\* processing_cancelled was emitted iff the state is CANCELLED and
\* processing_completed iff it is COMPLETED, and one of the three terminal
\* notifications was emitted.
C28_NotificationAgrees ==
    \A c \in Callers :
        (/\ tasks[c].pc = "release"
         /\ \A d \in Callers : calls[d].op # "cancel_processing") =>
            /\ tasks[c].signal \in {"processing_cancelled", "processing_completed",
                                    "processing_error"}
            /\ tasks[c].signal = "processing_cancelled"
                    <=> processing_state = "CANCELLED"
            /\ tasks[c].signal = "processing_completed"
                    <=> processing_state = "COMPLETED"

\* C29: the processor never wedges: after every call of process_batch that
\* set is_processing, whether it failed validation, raised while starting,
\* or started a run that ended COMPLETED, CANCELLED or ERROR, is_processing
\* eventually becomes False again (a rejected call leaves the flag to the
\* run that holds it), so that a later call is accepted.
C29_NeverWedges == is_processing ~> ~is_processing

\* a run that failed in the worker has released the processor
C29_Witness ==
    /\ ~is_processing
    /\ returned.submitted
    /\ ActiveTasks = {}
    /\ processing_state = "ERROR"

\* C30: in a BatchProcessingResult, at every point of a run,
\* successful_assignments + failed_assignments is the number of recorded
\* results and never exceeds total_assignments; when the worker has ended
\* the run COMPLETED it equals total_assignments, also when the assignments
\* of the batch were changed between the call of process_batch and the
\* snapshot of the worker; no result is added after complete().
C30_CountsAddUp ==
    /\ current_result.successful_assignments + current_result.failed_assignments
            = Len(current_result.assignment_results)
    /\ Len(current_result.assignment_results) <= current_result.total_assignments
    /\ \A c \in Callers :
          /\ (tasks[c].pc = "emit" /\ processing_state = "COMPLETED") =>
                Len(current_result.assignment_results)
                    = current_result.total_assignments
          /\ tasks[c].pc \in {"loop", "process"} => ~current_result.completed

\* C31: adding or removing an assignment is atomic with respect to
\* concurrent readers: no thread that reads the manager sees an assignment
\* in the map of assignments while its pages are not in the page index, or
\* the converse.
C31_ReadersSeeWhole == mgr.read => ~mgr.torn

\* C32: every mutator of a PageAssignment that changes it (add_page,
\* add_pages, remove_page, clear_pages, set_index_value,
\* update_index_values) sets modified_timestamp to the current time and
\* leaves document_preview None and is_valid False.
C32_MutatorsStampAndInvalidate ==
    (stamp.last \in Mutators /\ stamp.changed) =>
        /\ stamp.modified_timestamp = stamp.at
        /\ pa.document_preview = << >>
        /\ ~pa.is_valid

\* a second after its creation, one of the pages of an assignment that was
\* valid with a cached preview has been removed
C32_Witness ==
    /\ stamp.last = "remove_page"
    /\ stamp.changed
    /\ stamp.was_valid
    /\ stamp.at = 1
    /\ stamp.before = 0
    /\ pa.page_references # << >>

\* C33: the cached preview is never stale: in every state reachable through
\* the mutators of PageAssignment and DocumentBatch.set_schema, a
\* document_preview that is not None has the filename, the folder path and
\* the pages that generate_document_preview() would compute from the
\* current pages, index values and schema of the assignment.
C33_PreviewNeverStale ==
    pa.document_preview # << >> => pa.document_preview[1] = preview_under(pa)

\* C34: add_page and add_pages are no-ops for refs that are already
\* present: page_references never holds a duplicate after any sequence of
\* add_page, add_pages, remove_page and clear_pages, and a call that adds
\* no new page leaves modified_timestamp unchanged.
C34_AddingPresentPagesIsNoOp ==
    /\ \A i, j \in DOMAIN pa.page_references :
          pa.page_references[i] = pa.page_references[j] => i = j
    /\ (stamp.last \in {"add_page", "add_pages"} /\ ~stamp.changed) =>
          stamp.modified_timestamp = stamp.before

\* C35: an IndexSchema never holds two fields with the same name, after
\* every sequence of add_field, remove_field and reorder_fields and for
\* every argument those operations accept.
C35_NoDuplicateFieldNames ==
    \A i, j \in DOMAIN schema_fields.fields :
        schema_fields.fields[i] = schema_fields.fields[j] => i = j

\* C36: the thumbnail cache is capped by total byte size with
\* least-recently-accessed eviction: after every add_thumbnail call returns,
\* the sum of file_size over the indexed entries is at most max_size_bytes,
\* the entries were evicted in increasing order of last access time, and
\* every read or update of the cache index, eviction included, happened
\* while the lock of the cache was held.
C36_CacheCappedLruLocked ==
    /\ thumbs.pc = "returned" => total_size(thumbs.index) <= MaxCacheBytes
    /\ \A i, j \in DOMAIN thumbs.evicted :
          i < j => thumbs.evicted[i] < thumbs.evicted[j]
    /\ ~thumbs.unlocked

\* C37: the task tracking of ThumbnailGenerator holds only unfinished work:
\* under every interleaving of generate_thumbnail with the completion of
\* the task, once a task has finished and the call that submitted it has
\* returned, its task_id is in neither pending_tasks nor active_futures,
\* and no request is rejected as a duplicate of a finished task.
C37_OnlyUnfinishedTracked ==
    /\ \A t \in FileIds :
          (generator.pool[t] = "done" /\ generator.task_id # t) =>
              t \notin generator.pending_tasks \cup generator.active_futures
    /\ ~generator.rejected_finished

C39_DefaultsNeverModified ==
    /\ settings.default_settings = HardCoded
    /\ settings.last = "reset" =>
        \A section \in SettingSections : \A k \in SettingKeys(section) :
            get_setting(settings, section, k) = HardCoded[section][k]
    /\ settings.last = "load" =>
        \A key \in settings.missing :
            get_setting(settings, key[1], key[2]) = HardCoded[key[1]][key[2]]

====
